---- MODULE Spec2Model ----
(***************************************************************************)
(* Lesson generator: the generate -> validate -> repair -> persist         *)
(* pipeline (lib/lesson-generator.ts, lib/types.ts,                        *)
(* app/api/lessons/generate/route.ts, lib/database-utils.ts).              *)
(*                                                                         *)
(* Source text is modelled as TLA+ strings, character by character: the    *)
(* validator's includes(), match() and replace() calls are computed on the *)
(* text as the code computes them.                                         *)
(***************************************************************************)
EXTENDS Integers, Sequences, FiniteSets, TLC

(***************************************************************************)
(* Bounds of the model.                                                    *)
(***************************************************************************)
\* Number of lesson records (and so of background tasks) a behaviour creates.
MaxLessons == 2

(***************************************************************************)
(* Text helpers: JavaScript String and RegExp primitives used by the code. *)
(***************************************************************************)
NULL == "<null>"

CharAt(s, i) == SubSeq(s, i, i)

Max2(a, b) == IF a >= b THEN a ELSE b

\* The element of a singleton. Written The({e : x \in {v}}), it gives e with
\* x bound to the value of v, which is then computed once however often e
\* reads x.
The(S) == CHOOSE x \in S : TRUE

MinOf(S0) == The({(CHOOSE i \in S : \A j \in S : i <= j) : S \in {S0}})

MaxOf(S0) == The({(CHOOSE i \in S : \A j \in S : i >= j) : S \in {S0}})

\* JavaScript \s restricted to the white space the texts of the model contain.
IsWs(c) == c \in {" ", "\n", "\t", "\r"}

UpperChars ==
  {"A", "B", "C", "D", "E", "F", "G", "H", "I", "J", "K", "L", "M",
   "N", "O", "P", "Q", "R", "S", "T", "U", "V", "W", "X", "Y", "Z"}

LowerChars ==
  {"a", "b", "c", "d", "e", "f", "g", "h", "i", "j", "k", "l", "m",
   "n", "o", "p", "q", "r", "s", "t", "u", "v", "w", "x", "y", "z"}

DigitChars == {"0", "1", "2", "3", "4", "5", "6", "7", "8", "9"}

\* JavaScript \w
IsWord(c) == c \in UpperChars \cup LowerChars \cup DigitChars \cup {"_"}

\* s.startsWith(lit, i - 1), positions counted from 1
MatchAt(s, i, lit) ==
  /\ i >= 1
  /\ i + Len(lit) - 1 <= Len(s)
  /\ SubSeq(s, i, i + Len(lit) - 1) = lit

\* s.includes(lit)
Includes(s, lit) == \E i \in 1..(Len(s) + 1) : MatchAt(s, i, lit)

\* 1 + s.indexOf(lit, from - 1); 0 when lit does not occur at or after from
IndexFrom(s, lit, from) ==
  The({IF hits = {} THEN 0 ELSE MinOf(hits) :
         hits \in {{i \in from..(Len(s) + 1) : MatchAt(s, i, lit)}}})

\* number of occurrences of the one-character string c: (s.match(/c/g) || []).length
CountChar(s, c) == Cardinality({i \in 1..Len(s) : CharAt(s, i) = c})

\* first position >= i that holds no white space (Len(s) + 1 when there is none)
SkipWs(s, i) ==
  The({IF rest = {} THEN Max2(i, Len(s) + 1) ELSE MinOf(rest) :
         rest \in {{j \in i..Len(s) : ~IsWs(CharAt(s, j))}}})

\* first position >= i that holds no word character
SkipWord(s, i) ==
  The({IF rest = {} THEN Max2(i, Len(s) + 1) ELSE MinOf(rest) :
         rest \in {{j \in i..Len(s) : ~IsWord(CharAt(s, j))}}})

\* String.prototype.trim
Trim(s0) ==
  The({The({IF keep = {} THEN "" ELSE SubSeq(s, MinOf(keep), MaxOf(keep)) :
              keep \in {{j \in 1..Len(s) : ~IsWs(CharAt(s, j))}}}) :
         s \in {s0}})

\* s.replace(/<lit>\n?/g, ""): every occurrence of lit, with the newline that
\* follows it when there is one, is removed, scanning left to right.
RECURSIVE RemoveAllNl(_, _)
RemoveAllNl(s0, lit) ==
  The({The({IF i = 0 THEN s
            ELSE LET after == i + Len(lit)
                     next  == IF MatchAt(s, after, "\n") THEN after + 1 ELSE after
                 IN  SubSeq(s, 1, i - 1) \o RemoveAllNl(SubSeq(s, next, Len(s)), lit) :
              i \in {IndexFrom(s, lit, 1)}}) :
         s \in {s0}})

\* String.prototype.toLowerCase on the letters A-Z
LowerOf(c0) ==
  The({IF c \in UpperChars
       THEN CHOOSE l \in LowerChars :
              \E k \in 1..26 :
                /\ CharAt("ABCDEFGHIJKLMNOPQRSTUVWXYZ", k) = c
                /\ CharAt("abcdefghijklmnopqrstuvwxyz", k) = l
       ELSE c :
         c \in {c0}})

\* the characters i..j of s in lower case (computed by halves)
RECURSIVE ToLowerFrom(_, _, _)
ToLowerFrom(s, i, j) ==
  IF i > j THEN ""
  ELSE IF i = j THEN LowerOf(CharAt(s, i))
  ELSE ToLowerFrom(s, i, (i + j) \div 2) \o ToLowerFrom(s, ((i + j) \div 2) + 1, j)

ToLower(s0) == The({ToLowerFrom(s, 1, Len(s)) : s \in {s0}})

\* first position >= i that holds no newline
RECURSIVE SkipNewlines(_, _)
SkipNewlines(s, i) == IF MatchAt(s, i, "\n") THEN SkipNewlines(s, i + 1) ELSE i

\* s.replace(/^<lit>:?\n*/i, ""), lit given in lower case
StripLeadIn(s0, lit) ==
  The({IF Len(s) >= Len(lit) /\ ToLower(SubSeq(s, 1, Len(lit))) = lit
       THEN LET a == Len(lit) + 1
                b == IF MatchAt(s, a, ":") THEN a + 1 ELSE a
            IN  SubSeq(s, SkipNewlines(s, b), Len(s))
       ELSE s :
         s \in {s0}})

\* errors.join(sep)
RECURSIVE Join(_, _)
Join(list, sep) ==
  IF list = <<>> THEN ""
  ELSE IF Len(list) = 1 THEN list[1]
  ELSE list[1] \o sep \o Join(Tail(list), sep)

\* errors.map((e, i) => (i + 1) + ". " + e).join("\n")
RECURSIVE NumberedFrom(_, _)
NumberedFrom(list, n) ==
  IF list = <<>> THEN ""
  ELSE ToString(n) \o ". " \o list[1]
       \o (IF Len(list) = 1 THEN "" ELSE "\n" \o NumberedFrom(Tail(list), n + 1))

Numbered(list) == NumberedFrom(list, 1)

(***************************************************************************)
(* validateTypeScriptCode (lib/types.ts): the static validator.            *)
(***************************************************************************)
\* start positions of the matches of /<word>\s*<tail>/ in s
PatternHits(s, word, tail) ==
  {i \in 1..Len(s) : MatchAt(s, i, word) /\ MatchAt(s, SkipWs(s, i + Len(word)), tail)}

\* rule 6: the table of dangerous patterns, in the order of the source
dangerousPatterns ==
  << [word |-> "eval", tail |-> "(",
      message |-> "Contains dangerous eval() function"],
     [word |-> "Function", tail |-> "(",
      message |-> "Contains dangerous Function() constructor"],
     [word |-> "innerHTML", tail |-> "=",
      message |-> "Contains dangerous innerHTML (XSS risk)"],
     [word |-> "dangerouslySetInnerHTML", tail |-> "",
      message |-> "Contains dangerouslySetInnerHTML (use with caution)"],
     [word |-> "__proto__", tail |-> "",
      message |-> "Contains __proto__ manipulation"],
     [word |-> "document.write", tail |-> "",
      message |-> "Contains document.write (deprecated)"] >>

\* regex.test(s) of a RegExp object with the g flag. ends: the matches of the
\* expression in s, start position |-> position of the last character.
\* lastIndex: the object's lastIndex. The search starts at lastIndex; a match
\* moves lastIndex behind it, no match sets it to 0.
RegExpTest(ends, lastIndex) ==
  The({IF from = {} THEN [found |-> FALSE, lastIndex |-> 0]
       ELSE [found |-> TRUE, lastIndex |-> ends[MinOf(from)]] :
         from \in {{i \in DOMAIN ends : i > lastIndex}}})

\* the matches of /<word>\s*<tail>/ in s
PatternEnds(s, word, tail) ==
  [i \in PatternHits(s, word, tail) |-> SkipWs(s, i + Len(word)) + Len(tail) - 1]

\* The RegExp objects of one call, by their lastIndex: the six of
\* dangerousPatterns, then hooksRegex.
HooksRegex == Len(dangerousPatterns) + 1

FreshRegExps == [k \in 1..HooksRegex |-> 0]

\* objects that are made once and used by every call
NewRegExps_Hoisted(old) == old

\* The literals of lines 62-69 and 112 stand in the function body: every call
\* evaluates them to new objects, with lastIndex 0, whatever the objects of
\* the call before (old) hold.
NewRegExps(old) == FreshRegExps

\* pattern.test(code) of the k-th dangerous pattern
DangerTest(code, k, re) ==
  RegExpTest(PatternEnds(code, dangerousPatterns[k].word, dangerousPatterns[k].tail), re[k])

\* for (const {pattern, message} of dangerousPatterns) if (pattern.test(code)) errors.push(message)
RECURSIVE DangerErrorsFrom(_, _, _)
DangerErrorsFrom(code, k, re) ==
  IF k > Len(dangerousPatterns) THEN <<>>
  ELSE (IF DangerTest(code, k, re).found
        THEN <<dangerousPatterns[k].message>> ELSE <<>>)
       \o DangerErrorsFrom(code, k + 1, re)

\* a loop that stops at the first pattern that matches
DangerErrors_FirstOnly(code, re) ==
  IF DangerErrorsFrom(code, 1, re) = <<>> THEN <<>>
  ELSE <<Head(DangerErrorsFrom(code, 1, re))>>

DangerErrors(code, re) == DangerErrorsFrom(code, 1, re)

\* rule 3: code.match(/export default function\s+(\w+)/): the captured name,
\* NULL when the pattern does not match
ComponentName(code) ==
  LET kw == "export default function"
  IN  The({IF hits = {} THEN NULL
           ELSE The({SubSeq(code, a, SkipWord(code, a) - 1) :
                       a \in {SkipWs(code, MinOf(hits) + Len(kw))}}) :
             hits \in {{i \in 1..Len(code) :
                          /\ MatchAt(code, i, kw)
                          /\ SkipWs(code, i + Len(kw)) > i + Len(kw)
                          /\ SkipWord(code, SkipWs(code, i + Len(kw)))
                               > SkipWs(code, i + Len(kw))}}})

IsQuote(c) == c \in {"'", "\""}

\* first position >= i that holds a newline or a quote (Len(s) + 1 when none)
NextQuoteOrNl(s, i) ==
  The({IF stop = {} THEN Len(s) + 1 ELSE MinOf(stop) :
         stop \in {{j \in i..Len(s) : IsQuote(CharAt(s, j)) \/ CharAt(s, j) = "\n"}}})

\* One match of /import\s+.*?from\s+['"](.+?)['"]/ that starts at position i:
\* [ok, path, end]. The lazy .*? takes the first "from" on the line that is
\* followed by white space, a quote, a non-empty path and a closing quote.
ImportMatchAt(s, i) ==
  LET a    == i + 6
      okAt(f) ==
        /\ MatchAt(s, f, "from")
        /\ The({/\ q > f + 4
                /\ q <= Len(s) /\ IsQuote(CharAt(s, q))
                /\ q + 1 <= Len(s) /\ CharAt(s, q + 1) # "\n"
                /\ The({e <= Len(s) /\ IsQuote(CharAt(s, e)) :
                          e \in {NextQuoteOrNl(s, q + 2)}}) :
                  q \in {SkipWs(s, f + 4)}})
  IN  The({The({IF ~(MatchAt(s, i, "import") /\ b > a) \/ froms = {}
                THEN [ok |-> FALSE, path |-> "", end |-> i]
                ELSE The({The({[ok |-> TRUE, path |-> SubSeq(s, q + 1, e - 1), end |-> e] :
                                 e \in {NextQuoteOrNl(s, q + 2)}}) :
                            q \in {SkipWs(s, MinOf(froms) + 4)}}) :
                  froms \in {{f \in b..((IF nl = 0 THEN Len(s) + 1 ELSE nl) - 1) : okAt(f)}}}) :
             b \in {SkipWs(s, a)}, nl \in {IndexFrom(s, "\n", SkipWs(s, a))}})

\* [...code.matchAll(importRegex)].map(m => m[1]): the captured import paths,
\* matches taken left to right without overlap
RECURSIVE ImportPathsFrom(_, _)
ImportPathsFrom(s, from) ==
  The({IF i = 0 THEN <<>>
       ELSE The({IF m.ok THEN <<m.path>> \o ImportPathsFrom(s, m.end + 1)
                 ELSE ImportPathsFrom(s, i + 1) :
                   m \in {ImportMatchAt(s, i)}}) :
         i \in {IndexFrom(s, "import", from)}})

ImportPaths(code) == ImportPathsFrom(code, 1)

\* rule 7: one violation per import whose path does not contain "react"
RECURSIVE ImportErrors(_)
ImportErrors(paths) ==
  IF paths = <<>> THEN <<>>
  ELSE (IF ~Includes(paths[1], "react") /\ paths[1] # "react"
        THEN <<"Contains unsupported import: \"" \o paths[1]
               \o "\" (only React imports allowed)">>
        ELSE <<>>)
       \o ImportErrors(Tail(paths))

\* rule 8: one violation per kind of delimiter whose counts differ
BalanceError(code, open, close, kind) ==
  LET o == CountChar(code, open)
      c == CountChar(code, close)
  IN  IF o # c
      THEN <<"Unbalanced " \o kind \o " (" \o ToString(o) \o " open, "
             \o ToString(c) \o " close)">>
      ELSE <<>>

hookNames == {"useState", "useEffect", "useMemo", "useCallback", "useRef", "useContext"}

\* the matches of /\b(useState|useEffect|useMemo|useCallback|useRef|useContext)\b/
\* (no hook name is the beginning of another, so a position starts one match)
HookEnds(code) ==
  [i \in {j \in 1..Len(code) :
            \E h \in hookNames :
              /\ MatchAt(code, j, h)
              /\ (j = 1 \/ ~IsWord(CharAt(code, j - 1)))
              /\ (j + Len(h) > Len(code) \/ ~IsWord(CharAt(code, j + Len(h))))}
     |-> i - 1 + Len(CHOOSE h \in hookNames :
                       /\ MatchAt(code, i, h)
                       /\ (i + Len(h) > Len(code) \/ ~IsWord(CharAt(code, i + Len(h))))) ]

\* rule 10: hooksRegex.test(code)
UsesHooks(code, re) == RegExpTest(HookEnds(code), re[HooksRegex]).found

\* code.split("\n")
RECURSIVE SplitLines(_)
SplitLines(s0) ==
  The({The({IF n = 0 THEN <<s>>
            ELSE <<SubSeq(s, 1, n - 1)>> \o SplitLines(SubSeq(s, n + 1, Len(s))) :
              n \in {IndexFrom(s, "\n", 1)}}) :
         s \in {s0}})

\* positions i of line where /\b<word>/ matches (word starts with a word character)
WordStarts(line, word) ==
  {i \in 1..Len(line) :
     MatchAt(line, i, word) /\ (i = 1 \/ ~IsWord(CharAt(line, i - 1)))}

\* /\b(const|let|var)\s+/.test(line) && new RegExp("\\b" + varName + "\\s*=").test(line)
IsDeclarationLine(line, varName) ==
  /\ \E kw \in {"const", "let", "var"} : \E i \in WordStarts(line, kw) :
       SkipWs(line, i + Len(kw)) > i + Len(kw)
  /\ \E i \in WordStarts(line, varName) :
       MatchAt(line, SkipWs(line, i + Len(varName)), "=")

\* varName followed by "." and a letter or "_", or by "[", on a line that is
\* neither a comment line nor the declaration line
IsUseLine(line, varName) ==
  /\ ~MatchAt(Trim(line), 1, "//")
  /\ ~MatchAt(Trim(line), 1, "/*")
  /\ \E i \in WordStarts(line, varName) :
       LET a == i + Len(varName)
       IN  \/ /\ MatchAt(line, a, ".")
              /\ a + 1 <= Len(line)
              /\ CharAt(line, a + 1) \in UpperChars \cup LowerChars \cup {"_"}
           \/ MatchAt(line, a, "[")
  /\ ~IsDeclarationLine(line, varName)

commonArrayVars ==
  <<"questions", "items", "cards", "steps", "lessons", "data", "options",
    "choices", "exercises">>

\* the least member of a set of line numbers counted from 1, as an index
\* counted from 0 as in the source; -1 when the set is empty
FirstOf(S0) == The({IF S = {} THEN -1 ELSE MinOf(S) - 1 : S \in {S0}})

\* declLine: the first line that declares varName
FirstDeclLine(lines, varName) ==
  FirstOf({i \in 1..Len(lines) : IsDeclarationLine(lines[i], varName)})

\* firstUseLine: the first line that uses varName
FirstUseLine(lines, varName) ==
  FirstOf({i \in 1..Len(lines) : IsUseLine(lines[i], varName)})

\* rule 11: use before declaration of one of the common array variables
RECURSIVE TdzErrorsFrom(_, _)
TdzErrorsFrom(lines, k) ==
  IF k > Len(commonArrayVars) THEN <<>>
  ELSE LET v == commonArrayVars[k]
       IN  The({IF declLine # -1 /\ firstUseLine # -1 /\ firstUseLine < declLine
                THEN <<"Variable \"" \o v \o "\" is used at line "
                       \o ToString(firstUseLine + 1) \o " before declaration at line "
                       \o ToString(declLine + 1) \o " (TDZ error)">>
                ELSE <<>> :
                  declLine \in {FirstDeclLine(lines, v)},
                  firstUseLine \in {FirstUseLine(lines, v)}})
           \o TdzErrorsFrom(lines, k + 1)

\* line.match(/useState\s*\(([^)]+)\)/): the captured initial value, NULL when
\* the line has no match
UseStateInitial(line) ==
  LET arg(i) == SkipWs(line, i + 8) + 1
      close(i) == IndexFrom(line, ")", arg(i))
      hits == {i \in 1..Len(line) :
                 /\ MatchAt(line, i, "useState")
                 /\ MatchAt(line, SkipWs(line, i + 8), "(")
                 /\ close(i) > arg(i)}
  IN  IF hits = {} THEN NULL
      ELSE LET i == CHOOSE h \in hits : \A g \in hits : h <= g
           IN  SubSeq(line, arg(i), close(i) - 1)

\* new RegExp("\\b" + varName + "\\b").test(text)
HasWord(text, word) ==
  \E i \in WordStarts(text, word) :
    i + Len(word) > Len(text) \/ ~IsWord(CharAt(text, i + Len(word)))

\* rule 12, for line number i (from 1) and the variables from the k-th on
RECURSIVE UseStateVarErrors(_, _, _)
UseStateVarErrors(lines, i, k) ==
  IF k > Len(commonArrayVars) THEN <<>>
  ELSE LET v == commonArrayVars[k]
       IN  The({IF HasWord(UseStateInitial(lines[i]), v) /\ declLine # -1
                   /\ i - 1 < declLine
                THEN <<"useState at line " \o ToString(i) \o " references \"" \o v
                       \o "\" before it's declared at line " \o ToString(declLine + 1)>>
                ELSE <<>> :
                  declLine \in {FirstDeclLine(lines, v)}})
           \o UseStateVarErrors(lines, i, k + 1)

RECURSIVE UseStateErrorsFrom(_, _)
UseStateErrorsFrom(lines, i) ==
  IF i > Len(lines) THEN <<>>
  ELSE (IF UseStateInitial(lines[i]) # NULL THEN UseStateVarErrors(lines, i, 1) ELSE <<>>)
       \o UseStateErrorsFrom(lines, i + 1)

\* rule 13: ts.createSourceFile and the visit for nodes of SyntaxKind.Unknown.
\* The TypeScript parser is a library outside the repository; it builds a tree
\* for any text (syntax errors become diagnostics on the file, which the visit
\* does not read) and the texts of this model tokenize without unknown tokens.
SyntaxDiagnostics(code) == <<>>

\* the errors pushed by rules 2 to 13, in the order of the rules; name is the
\* component name captured by rule 3, lines the lines of the code
Violations(code, name, lines, re) ==
  (IF ~Includes(code, "export default function")
   THEN <<"Missing default export function (must use: export default function ComponentName())">>
   ELSE <<>>)
  \o (IF name # NULL /\ CharAt(name, 1) \notin UpperChars
      THEN <<"Component name \"" \o name \o "\" must start with uppercase letter">>
      ELSE <<>>)
  \o (IF ~Includes(code, "return (") /\ ~Includes(code, "return(")
         /\ ~Includes(code, "return <")
      THEN <<"Missing return statement with JSX">> ELSE <<>>)
  \o (IF Includes(code, "<") /\ Includes(code, ">") /\ ~Includes(code, "</")
      THEN <<"JSX elements not properly closed">> ELSE <<>>)
  \o DangerErrors(code, re)
  \o ImportErrors(ImportPaths(code))
  \o BalanceError(code, "{", "}", "braces")
  \o BalanceError(code, "(", ")", "parentheses")
  \o BalanceError(code, "[", "]", "brackets")
  \o (IF ~Includes(code, "\"use client\"") /\ ~Includes(code, "'use client'")
      THEN <<"Missing \"use client\" directive at the top">> ELSE <<>>)
  \o (IF UsesHooks(code, re) /\ ~Includes(code, "from \"react\"")
         /\ ~Includes(code, "from 'react'")
      THEN <<"Uses React hooks but missing React import">> ELSE <<>>)
  \o TdzErrorsFrom(lines, 1)
  \o UseStateErrorsFrom(lines, 1)
  \o SyntaxDiagnostics(code)

\* the RegExp objects re after the tests of rules 6 and 10 on code
RegExpsAfter(code, re) ==
  [k \in 1..HooksRegex |->
     IF k = HooksRegex THEN RegExpTest(HookEnds(code), re[k]).lastIndex
     ELSE DangerTest(code, k, re).lastIndex]

\* One call of validateTypeScriptCode(code) in a process whose last call left
\* the RegExp objects old: what it returns (verdict) and the objects it leaves.
ValidatorCall(code, old) ==
  IF Len(Trim(code)) = 0
  THEN [verdict |-> [isValid |-> FALSE, errors |-> <<"Code is empty">>], regexps |-> old]
  ELSE The({The({[verdict |-> [isValid |-> Len(errors) = 0, errors |-> errors],
                  regexps |-> RegExpsAfter(code, re)] :
                   errors \in {Violations(code, name, lines, re)}}) :
              name \in {ComponentName(code)}, lines \in {SplitLines(code)},
              re \in {NewRegExps(old)}})

\* validateTypeScriptCode(code): { isValid, errors }
validateTypeScriptCode(code) == ValidatorCall(code, FreshRegExps).verdict

(***************************************************************************)
(* Source texts for the validator. A text is put together from a correct   *)
(* component by making some of the changes of Defects; next to each text   *)
(* stands the list of the messages of the rules it breaks, written down    *)
(* rule by rule in the order of the source (not computed by the validator).*)
(***************************************************************************)
Defects ==
  {"noUseClient", "axios", "noExport", "lowerName", "eval", "proto", "noReturn", "noBrace"}

SourceText(d) ==
  (IF "noUseClient" \in d THEN "" ELSE "\"use client\";\n")
  \o (IF "axios" \in d THEN "import axios from \"axios\";\n" ELSE "")
  \o (IF "noExport" \in d THEN "" ELSE "export default ")
  \o "function " \o (IF "lowerName" \in d THEN "lesson" ELSE "Lesson") \o "() {\n"
  \o (IF "eval" \in d THEN "  eval(\"1\");\n" ELSE "")
  \o (IF "proto" \in d THEN "  const p = window.__proto__;\n" ELSE "")
  \o (IF "noReturn" \in d THEN "  const view = <p>Hi</p>;\n" ELSE "  return <p>Hi</p>;\n")
  \o (IF "noBrace" \in d THEN "" ELSE "}\n")

\* the messages of the rules SourceText(d) breaks: rules 2, 3, 4, 6, 7, 8, 9
BrokenRules(d) ==
  (IF "noExport" \in d
   THEN <<"Missing default export function (must use: export default function ComponentName())">>
   ELSE <<>>)
  \o (IF "lowerName" \in d /\ "noExport" \notin d
      THEN <<"Component name \"lesson\" must start with uppercase letter">> ELSE <<>>)
  \o (IF "noReturn" \in d THEN <<"Missing return statement with JSX">> ELSE <<>>)
  \o (IF "eval" \in d THEN <<"Contains dangerous eval() function">> ELSE <<>>)
  \o (IF "proto" \in d THEN <<"Contains __proto__ manipulation">> ELSE <<>>)
  \o (IF "axios" \in d
      THEN <<"Contains unsupported import: \"axios\" (only React imports allowed)">>
      ELSE <<>>)
  \o (IF "noBrace" \in d THEN <<"Unbalanced braces (1 open, 0 close)">> ELSE <<>>)
  \o (IF "noUseClient" \in d
      THEN <<"Missing \"use client\" directive at the top">> ELSE <<>>)

\* empty and whitespace-only texts: they have no default export (rule 2), no
\* return statement (rule 4) and no "use client" directive (rule 9)
BlankTexts == {"", "   ", "\n \n"}

BlankBrokenRules ==
  << "Missing default export function (must use: export default function ComponentName())",
     "Missing return statement with JSX",
     "Missing \"use client\" directive at the top" >>

\* Import statements a component may start with: the statement, the modules
\* it imports from, and the message of rule 7 when the statement breaks it
\* (the path matched by importRegex does not contain "react").
ImportForms ==
  { [line |-> "", targets |-> <<>>, breaks |-> <<>>],
    [line |-> "import React from \"react\";\n", targets |-> <<"react">>, breaks |-> <<>>],
    [line |-> "import { render } from \"react-dom\";\n", targets |-> <<"react-dom">>,
     breaks |-> <<>>],
    [line |-> "import { h } from \"preact\";\n", targets |-> <<"preact">>, breaks |-> <<>>],
    [line |-> "import \"fs\";\n", targets |-> <<"fs">>, breaks |-> <<>>],
    [line |-> "import {\n  get\n} from \"axios\";\n", targets |-> <<"axios">>,
     breaks |-> <<>>],
    [line |-> "import _ from 'lodash';\n", targets |-> <<"lodash">>,
     breaks |-> <<"Contains unsupported import: \"lodash\" (only React imports allowed)">>] }

\* Ways to write the component: the text up to the parameter list and the
\* identifier of the default-exported function declaration ("" when the
\* declaration has none, NULL when the text has no such declaration).
ExportForms ==
  { [head |-> "export default function Lesson", entry |-> "Lesson"],
    [head |-> "export default function ", entry |-> ""],
    [head |-> "// export default function Lesson\nfunction helper", entry |-> NULL] }

FormText(im, ex) ==
  "\"use client\";\n" \o im.line \o ex.head \o "() {\n  return <p>Hi</p>;\n}\n"

\* components that call a hook, with and without the import of React
HookSources ==
  { [text |-> "\"use client\";\nexport default function Lesson() {\n"
                \o "  const [n, setN] = useState(0);\n  return <p>Hi</p>;\n}\n",
     breaks |-> <<"Uses React hooks but missing React import">>,
     imports |-> <<>>, entry |-> "Lesson"],
    [text |-> "\"use client\";\nimport { useState } from \"react\";\n"
                \o "export default function Lesson() {\n"
                \o "  const [n, setN] = useState(0);\n  return <p>Hi</p>;\n}\n",
     breaks |-> <<>>, imports |-> <<"react">>, entry |-> "Lesson"] }

\* text: the argument; breaks: the messages of the rules it breaks; imports:
\* the modules it imports from; entry: the identifier of its default-exported
\* function declaration
Sources ==
  {[text |-> SourceText(d), breaks |-> BrokenRules(d),
    imports |-> IF "axios" \in d THEN <<"axios">> ELSE <<>>,
    entry |-> IF "noExport" \in d THEN NULL
              ELSE IF "lowerName" \in d THEN "lesson" ELSE "Lesson"] :
     d \in SUBSET Defects}
  \cup {[text |-> t, breaks |-> BlankBrokenRules, imports |-> <<>>, entry |-> NULL] :
          t \in BlankTexts}
  \cup {[text |-> FormText(im, ex), breaks |-> im.breaks, imports |-> im.targets,
          entry |-> ex.entry] : im \in ImportForms, ex \in ExportForms}
  \cup HookSources

\* the sources that are validated more than once
RepeatSources ==
  HookSources
  \cup {x \in Sources : x.text \in {SourceText({}), SourceText({"eval"}),
                                    SourceText({"eval", "proto"}), ""}}

RepeatTexts == {x.text : x \in RepeatSources}

NoSource == [text |-> NULL, breaks |-> <<>>, imports |-> <<>>, entry |-> NULL]

\* no call has returned: a value validateTypeScriptCode never returns
NoVerdict == [isValid |-> FALSE, errors |-> <<>>]

(***************************************************************************)
(* The generative model: what its calls may answer.                        *)
(***************************************************************************)
\* Stands for the three backquote characters of a Markdown code fence, which a
\* TLA+ string cannot hold.
Fence == "~~~"

ValidLesson ==
  "\"use client\";\nimport { useState } from \"react\";\nexport default function LessonComponent() {\n  const [open, setOpen] = useState(false);\n  return (<div className=\"p-6\">Photosynthesis</div>);\n}"

\* passes every rule of the validator and is shorter than 100 characters
ShortLesson ==
  "\"use client\";\nexport default function Quiz() {\n  return <p>Quiz</p>;\n}"

\* lacks the export pattern
NoExportLesson ==
  "\"use client\";\nfunction LessonComponent() {\n  return (<div className=\"p-6\">Photosynthesis turns light into sugar.</div>);\n}\nexport default LessonComponent;"

\* has the export pattern and breaks several rules: the violations come in the
\* order of the rules
BrokenLesson ==
  "import axios from \"axios\";\nexport default function lesson() {\n  return (<div className=\"p-6\">{eval(\"1 + 1\")}</div>);\n"

\* texts response.text() may return for a code prompt or a fix prompt
CodeResponses ==
  { Fence \o "tsx\n" \o ValidLesson \o "\n" \o Fence,
    ShortLesson,
    "Here's the fixed code:\n" \o NoExportLesson,
    BrokenLesson }

\* texts response.text() may return for the title prompt
TitleResponses == {" Photosynthesis Basics\n"}

\* values a model call may throw: an Error with a message, or a value that is
\* no Error
ThrownValues ==
  { [isError |-> TRUE,  message |-> "fetch failed"],
    [isError |-> FALSE, message |-> NULL] }

(***************************************************************************)
(* lib/lesson-generator.ts                                                 *)
(***************************************************************************)
MAX_RETRIES == 3

\* extractTitle: text.trim() || "Untitled Lesson"
extractTitle(text) == IF Trim(text) = "" THEN "Untitled Lesson" ELSE Trim(text)

\* generateLessonCode: the clean-up of the model's answer
CleanGenerated(raw) ==
  Trim(RemoveAllNl(RemoveAllNl(RemoveAllNl(raw, Fence \o "typescript"),
                               Fence \o "tsx"), Fence))

\* validateAndFixCode, first definition: the clean-up of the repaired text
CleanFixed1(raw) ==
  Trim(StripLeadIn(StripLeadIn(
         RemoveAllNl(RemoveAllNl(RemoveAllNl(RemoveAllNl(raw,
           Fence \o "typescript"), Fence \o "tsx"), Fence \o "jsx"), Fence),
         "here's the fixed code"), "fixed code"))

\* validateAndFixCode, second definition: the clean-up of the repaired text
CleanFixed2(raw) == CleanGenerated(raw)

CleanFixed(def, raw) == IF def = 1 THEN CleanFixed1(raw) ELSE CleanFixed2(raw)

\* Every text the validator can be given in a behaviour, and its verdict.
CleanTexts ==
  {CleanGenerated(r) : r \in CodeResponses}
    \cup {CleanFixed1(r) : r \in CodeResponses}
    \cup {CleanFixed2(r) : r \in CodeResponses}

VerdictTable == [c \in CleanTexts |-> validateTypeScriptCode(c)]

\* validateTypeScriptCode(text), read from the table when the text is in it
Verdict(text) ==
  IF text \in CleanTexts THEN VerdictTable[text] ELSE validateTypeScriptCode(text)

\* the call validateTypeScriptCode(code) made by the generator
Validate(code) == Verdict(code)

\* the clean-ups and the title extraction, tabulated over the model's answers
CleanGeneratedTable == [r \in CodeResponses |-> CleanGenerated(r)]

CleanFixedTable == [d \in {1, 2} |-> [r \in CodeResponses |-> CleanFixed(d, r)]]

TitleTable == [t \in TitleResponses |-> extractTitle(t)]

\* a variant of MayRepair: the last attempt asks for a repair too
MayRepair_LastAttemptToo(attempt) == attempt <= MAX_RETRIES

\* validateAndFixCode: "if (attempt < MAX_RETRIES)", the guard of the repair call
MayRepair(attempt) == attempt < MAX_RETRIES

\* a variant of MayRetry: the catch block allows one retry more
MayRetry_OneMore(retryCount) == retryCount < MAX_RETRIES

\* generateLesson: "if (retryCount < MAX_RETRIES - 1)", the guard of a retry
MayRetry(retryCount) == retryCount < MAX_RETRIES - 1

\* a variant of ExhaustedError: the error names the first violation only
ExhaustedError_FirstOnly(def, errors) ==
  "Code validation failed after " \o ToString(MAX_RETRIES)
    \o " attempts: " \o errors[1]

\* generateLesson: the error of the result returned when the last attempt
\* fails validation
ExhaustedError(def, errors) ==
  IF def = 1   \* (the cross-mark emoji that opens the message is left out)
  THEN "Code validation failed after " \o ToString(MAX_RETRIES)
       \o " attempts.\n\nValidation Errors:\n" \o Numbered(errors)
       \o "\n\nPlease try again with a clearer prompt."
  ELSE "Code validation failed after " \o ToString(MAX_RETRIES)
       \o " attempts: " \o Join(errors, ", ")

\* generateLesson: the error of the result returned from the catch block
CaughtError(def, thrown) ==
  IF thrown.isError THEN thrown.message
  ELSE IF def = 1 THEN "Unknown error occurred during generation"
  ELSE "Unknown error occurred"

Failure(error) ==
  [success |-> FALSE, code |-> NULL, title |-> NULL, error |-> error]

\* a variant of Success: the directive is put in front of the code once more
\* after the code has been validated
Success_DirectiveAdded(code, title) ==
  [success |-> TRUE, code |-> "\"use client\";\n" \o code, title |-> title,
   error |-> NULL]

Success(code, title) ==
  [success |-> TRUE, code |-> code, title |-> title, error |-> NULL]

\* a variant of ResultCode: the result carries the draft as generated, not the text that was validated
ResultCode_Draft(validation, code) == code

\* generateLesson: the code of a successful result, "code: validation.code"
ResultCode(validation, code) == validation.code

(***************************************************************************)
(* lib/validate-prompt.ts. A TLA+ string holds ASCII characters only. The  *)
(* characters of other scripts are written with the ASCII symbols below,   *)
(* one symbol for one UTF-16 code unit, so that Len is String.length. The  *)
(* code tells the blocks U+0900-U+0D7F (Devanagari, Bengali, Gurmukhi,     *)
(* Gujarati, Oriya, Tamil, Telugu, Kannada, Malayalam) from one another    *)
(* only in the keyword patterns; the letters of the model stand for        *)
(* letters in an order that spells none of the keywords of lines 143-218,  *)
(* so these patterns match no prompt of the model and are left out.        *)
(***************************************************************************)
\* two different letters of the blocks U+0900-U+0D7F
IndicChars == {"^", "&"}
\* two different letters of the block U+0600-U+06FF (Arabic, Urdu)
ArabicChars == {"~", "|"}
\* U+200C, the zero-width non-joiner
InvisibleChars == {"{"}
\* U+2600, a character of emojiRegex
EmojiChars == {"}"}

\* rule 4: invisibleChars.test(trimmedPrompt)
HasInvisible(t) == \E i \in 1..Len(t) : CharAt(t, i) \in InvisibleChars

\* rule 5: (trimmedPrompt.match(emojiRegex) || []).length
EmojiCount(t) == Cardinality({i \in 1..Len(t) : CharAt(t, i) \in EmojiChars})

\* hasIndicScript: the blocks U+0900-U+0D7F and U+0600-U+06FF
HasIndicScript(t) == \E i \in 1..Len(t) : CharAt(t, i) \in IndicChars \cup ArabicChars

\* tokens of a pattern: a literal, or one of these two
WsPlus == "\\s+"
WsStar == "\\s*"

\* the pattern made of the tokens toks matches s at position i
RECURSIVE MatchTokens(_, _, _)
MatchTokens(s, i, toks) ==
  IF toks = <<>> THEN TRUE
  ELSE IF toks[1] = WsPlus
  THEN SkipWs(s, i) > i /\ MatchTokens(s, SkipWs(s, i), Tail(toks))
  ELSE IF toks[1] = WsStar
  THEN MatchTokens(s, SkipWs(s, i), Tail(toks))
  ELSE MatchAt(s, i, toks[1]) /\ MatchTokens(s, i + Len(toks[1]), Tail(toks))

\* pattern.test(s), for a pattern made of tokens
Found(s, toks) == \E i \in 1..Len(s) : MatchTokens(s, i, toks)

\* /\b(w1|w2|...)\b/.test(s), s in lower case
AnyWord(s, words) == \E w \in words : HasWord(s, w)

\* /\b(a1|a2|...)\b.*\b(b1|b2|...)\b/.test(s): a word of as, then on the same
\* line a word of bs
WordThenWord(s, as, bs) ==
  \E a \in as : \E b \in bs :
    \E i \in WordStarts(s, a) : \E j \in WordStarts(s, b) :
      /\ ~IsWord(CharAt(s, i + Len(a)))
      /\ j >= i + Len(a)
      /\ j + Len(b) > Len(s) \/ ~IsWord(CharAt(s, j + Len(b)))
      /\ \A k \in (i + Len(a))..(j - 1) : CharAt(s, k) # "\n"

\* /[class]{n,}/.test(s)
ClassRun(s, class, n) ==
  \E i \in 1..(Len(s) - n + 1) : \A j \in i..(i + n - 1) : CharAt(s, j) \in class

\* /(.)\1{10,}/i.test(s), s in lower case
RepeatedCharacter(s) ==
  \E i \in 1..(Len(s) - 10) :
    CharAt(s, i) # "\n" /\ \A j \in (i + 1)..(i + 10) : CharAt(s, j) = CharAt(s, i)

\* rule 6, spamPatterns, on the prompt in lower case
IsSpam(s) ==
  \/ RepeatedCharacter(s)
  \/ /\ Len(s) > 0
     /\ \A i \in 1..Len(s) :
          CharAt(s, i) \notin LowerChars \cup DigitChars \cup IndicChars /\ ~IsWs(CharAt(s, i))
  \/ Includes(s, "testtt")
  \/ Includes(s, "asdff")
  \/ Includes(s, "qwerty")

\* rule 7, sqlPatterns, on the prompt in lower case
IsSql(s) ==
  \/ WordThenWord(s, {"select", "insert", "update", "delete", "drop", "create",
                      "alter", "exec", "execute"},
                  {"from", "into", "table", "database"})
  \/ Includes(s, "--")
  \/ \E k \in 1..Len(s) :
       /\ CharAt(s, k) = "="
       /\ \E i \in WordStarts(s, "or") : \E j \in WordStarts(s, "or") :
            /\ i + 2 <= k /\ k < j
            /\ ~IsWord(CharAt(s, i + 2))
            /\ j + 2 > Len(s) \/ ~IsWord(CharAt(s, j + 2))
            /\ \A m \in i..j : CharAt(s, m) # "\n"
  \/ Found(s, <<";", WsStar, "drop">>)
  \/ Found(s, <<"'", WsStar, "or", WsStar, "'1'", WsStar, "=", WsStar, "'1">>)

\* rule 8, injectionPatterns, on the prompt in lower case
IsInjection(s) ==
  \/ \E w \in {"previous", "all", "above"} :
       Found(s, <<"ignore", WsPlus, w, WsPlus, "instructions">>)
  \/ \E w \in {"now", "a"} : Found(s, <<"you", WsPlus, "are", WsPlus, w, WsPlus>>)
  \/ Found(s, <<"system", WsStar, ":">>)
  \/ Includes(s, "[system]")
  \/ \E w \in {"previous", "all"} : Found(s, <<"disregard", WsPlus, w>>)
  \/ \E w \in {"everything", "all", "previous"} : Found(s, <<"forget", WsPlus, w>>)

\* rule 9, inappropriatePatterns
inappropriateWords ==
  {"fuck", "shit", "damn", "bitch", "ass", "sex", "porn", "xxx", "nsfw",
   "kill", "murder", "death", "suicide", "bomb", "weapon", "gun",
   "hack", "crack", "pirate", "steal", "cheat", "illegal"}

\* rule 10, educationalKeywords: the patterns in Latin script
educationalKeywords ==
  {"lesson", "learn", "teach", "explain", "understand", "study", "quiz", "test",
   "exam", "practice", "topic", "subject", "concept", "theory", "example",
   "tutorial", "guide", "course", "education", "knowledge", "skill",
   "training", "instruction", "demonstration", "what", "how", "why", "when",
   "where", "who", "which", "interactive", "diagram", "visual", "step",
   "chapter", "section", "activity", "question", "answer", "solve", "problem",
   "exercise", "challenge", "math", "science", "history", "english",
   "language", "literature", "art", "music", "physics", "chemistry",
   "biology", "geography", "social", "computer", "technology", "create",
   "generate", "make", "build", "develop", "design",
   "paath", "seekhna", "sikhana", "samjhana", "adhyayan", "pariksha",
   "abhyas", "vishay", "avdharna", "siddhant", "udaharan", "pathyakram",
   "shiksha", "gyaan", "kaushal", "prashikshan", "kya", "kaise", "kyon",
   "kab", "kahan", "kaun", "ganit", "vigyan", "itihaas", "bhoogol",
   "bhautiki", "rasayan", "jeevvigyan"}

\* rule 10, hasSubstantiveContent: a capitalised word, a digit, at least
\* four words, or a character of hasIndicScript
HasSubstantiveContent(t) ==
  \/ HasIndicScript(t)
  \/ \E i \in 1..(Len(t) - 1) :
       /\ CharAt(t, i) \in UpperChars
       /\ i = 1 \/ ~IsWord(CharAt(t, i - 1))
       /\ CharAt(t, i + 1) \in LowerChars
  \/ \E i \in 1..Len(t) : CharAt(t, i) \in DigitChars
  \/ Cardinality({i \in 1..Len(t) :
                    ~IsWs(CharAt(t, i)) /\ (i = 1 \/ IsWs(CharAt(t, i - 1)))}) >= 4

\* rule 11, hasGibberish: a run of 6 consonants or of 5 vowels (a run lies
\* within one word, which then has 4 characters or more)
HasGibberish(s) ==
  \/ ClassRun(s, LowerChars \ {"a", "e", "i", "o", "u"}, 6)
  \/ ClassRun(s, {"a", "e", "i", "o", "u"}, 5)

\* a limit that lets 1001 characters pass
TooLong_OneMore(t) == Len(t) > 1001

\* rule 2: trimmedPrompt.length < 10
TooShort(t) == Len(t) < 10

\* rule 3: trimmedPrompt.length > 1000
TooLong(t) == Len(t) > 1000

\* validateLessonPrompt(prompt); error is NULL when the prompt is valid
validateLessonPrompt(prompt) ==
  IF prompt = NULL \/ prompt = ""
  THEN [isValid |-> FALSE, error |-> "Please enter a valid prompt"]
  ELSE The({The({
    IF TooShort(t)
    THEN [isValid |-> FALSE,
          error |-> "Please enter a more detailed prompt (at least 10 characters)"]
    ELSE IF TooLong(t)
    THEN [isValid |-> FALSE,
          error |-> "Prompt is too long (maximum 1000 characters)"]
    ELSE IF HasInvisible(t)
    THEN [isValid |-> FALSE,
          error |-> "Prompt contains invisible characters. Please use normal text."]
    ELSE IF EmojiCount(t) > 10
    THEN [isValid |-> FALSE,
          error |-> "Too many emojis in prompt. Please use more descriptive text."]
    ELSE IF IsSpam(s)
    THEN [isValid |-> FALSE, error |-> "Please enter a valid lesson-related prompt"]
    ELSE IF IsSql(s)
    THEN [isValid |-> FALSE,
          error |-> "Invalid characters or patterns detected in prompt"]
    ELSE IF IsInjection(s)
    THEN [isValid |-> FALSE, error |-> "Invalid prompt format detected"]
    ELSE IF AnyWord(s, inappropriateWords)
    THEN [isValid |-> FALSE,
          error |-> "Please enter appropriate, educational content only"]
    ELSE IF ~AnyWord(s, educationalKeywords) /\ ~HasSubstantiveContent(t)
    THEN [isValid |-> FALSE,
          error |-> "Please enter a valid prompt related to lessons, education, or learning topics"]
    ELSE IF ~HasIndicScript(t) /\ HasGibberish(s)
    THEN [isValid |-> FALSE, error |-> "Please enter a valid prompt with real words"]
    ELSE [isValid |-> TRUE, error |-> NULL] :
      s \in {ToLower(t)}}) : t \in {Trim(prompt)}})

(***************************************************************************)
(* Prompts for validateLessonPrompt.                                       *)
(***************************************************************************)
\* the scripts the patterns of validateLessonPrompt are written for
Scripts ==
  {"Devanagari", "Bengali", "Gurmukhi", "Gujarati", "Tamil", "Telugu", "Kannada",
   "Malayalam", "Arabic"}

\* two letters of the script
LettersOf(script) == IF script = "Arabic" THEN <<"~", "|">> ELSE <<"^", "&">>

\* shape with its letters a and b replaced by the two letters
RECURSIVE Spell(_, _)
Spell(shape, letters) ==
  IF shape = "" THEN ""
  ELSE (IF Head(shape) = "a" THEN letters[1]
        ELSE IF Head(shape) = "b" THEN letters[2]
        ELSE CharAt(shape, 1))
       \o Spell(Tail(shape), letters)

\* Outlines in one script, a and b standing for two of its letters: several
\* words; one word; words with a zero-width non-joiner, as the orthography
\* of several of these scripts has them; a letter written eleven times;
\* words and a year; words and punctuation.
ScriptShapes ==
  {"ab ba abab bab", "abbabaabbbab", "ab{ba abab bab", "aaaaaaaaaaa ba",
   "ab ba 2024 abab", "abba, abab. bab?"}

ScriptOutlines ==
  {[text |-> Spell(shape, LettersOf(script)), script |-> script] :
     shape \in ScriptShapes, script \in Scripts}

\* n copies of "learn math "
RECURSIVE Copies(_)
Copies(n) == IF n = 0 THEN "" ELSE "learn math " \o Copies(n - 1)

\* a text of n characters that breaks no rule but those on the length
Fill(n) == IF n = 0 THEN "" ELSE SubSeq(Copies((n \div 11) + 1), 1, n - 1) \o "."

\* the lengths of the texts of the model
Lengths == {0, 1, 9, 10, 11, 999, 1000, 1001, 1010}

LengthOutlines ==
  {[text |-> Fill(n), script |-> "Latin"] : n \in Lengths}
  \cup {[text |-> "  " \o Fill(n) \o " \n", script |-> "Latin"] : n \in Lengths}
  \cup {[text |-> t, script |-> "Latin"] :
          t \in {NULL, "Learn 42", "^&^& ^&^", " quiz 7 ", "why?"}}

PromptInputs == ScriptOutlines \cup LengthOutlines

NoOutline == [text |-> NULL, script |-> NULL]

\* no call has returned: a value validateLessonPrompt never returns
NoAdmission == [isValid |-> FALSE, error |-> NULL]

(***************************************************************************)
(* The compilation endpoint (POST of part_003 and of part_004): the        *)
(* rewriting of the source before it is transpiled.                        *)
(***************************************************************************)
\* position behind an optional character of set at position i
SkipOpt(s, i, set) == IF i <= Len(s) /\ CharAt(s, i) \in set THEN i + 1 ELSE i

\* first position >= i that holds a quote (Len(s) + 1 when there is none)
NextQuote(s, i) ==
  The({IF stop = {} THEN Len(s) + 1 ELSE MinOf(stop) :
         stop \in {{j \in i..Len(s) : IsQuote(CharAt(s, j))}}})

\* /["'][^"']+["'];?\s*/ at position q: the position behind the match, 0 when
\* there is no match
QuotedEnd(s, q) ==
  IF q <= Len(s) /\ IsQuote(CharAt(s, q))
  THEN The({IF e > q + 1 /\ e <= Len(s)
            THEN SkipWs(s, SkipOpt(s, e + 1, {";"})) ELSE 0 :
              e \in {NextQuote(s, q + 1)}})
  ELSE 0

\* /from\s+["'][^"']+["'];?\s*/ at position f
FromEnd(s, f) ==
  IF MatchAt(s, f, "from") /\ SkipWs(s, f + 4) > f + 4
  THEN QuotedEnd(s, SkipWs(s, f + 4)) ELSE 0

\* The patterns of the rewriting. MatchEnd(kind, s, ls, i): the position
\* behind the match of the pattern that starts at position i of s, 0 when
\* none starts there; ls is s in lower case, for the patterns with the i flag.
\*   useClient      /["']?use\s+client["']?;?\s*/gi
\*   useClientLine  /^["']use client["'];?\s*$/gim
\*   import         /import\s+[\s\S]*?from\s+["'][^"']+["'];?\s*/g
\*   sideImport     /import\s+["'][^"']+["'];?\s*/g
\*   exportFunction /export\s+default\s+function\s+(\w+)/g
\*   exportDefault  /export\s+default\s+/g
\*   export         /export\s+/g
\*   blankLines     /\n{3,}/g
MatchEnd(kind, s, ls, i) ==
  CASE kind = "useClient" ->
         The({IF MatchAt(ls, a, "use") /\ SkipWs(s, a + 3) > a + 3
                 /\ MatchAt(ls, SkipWs(s, a + 3), "client")
              THEN SkipWs(s, SkipOpt(s, SkipOpt(s, SkipWs(s, a + 3) + 6, {"'", "\""}), {";"}))
              ELSE 0 :
                a \in {SkipOpt(s, i, {"'", "\""})}})
    [] kind = "useClientLine" ->
         IF /\ i = 1 \/ CharAt(s, i - 1) = "\n"
            /\ IsQuote(CharAt(s, i))
            /\ MatchAt(ls, i + 1, "use client")
            /\ i + 11 <= Len(s) /\ IsQuote(CharAt(s, i + 11))
         THEN The({IF \E e \in (i + 12)..b : e > Len(s) \/ CharAt(s, e) = "\n"
                   THEN MaxOf({e \in (i + 12)..b : e > Len(s) \/ CharAt(s, e) = "\n"})
                   ELSE 0 :
                     b \in {SkipWs(s, SkipOpt(s, i + 12, {";"}))}})
         ELSE 0
    [] kind = "import" ->
         IF MatchAt(s, i, "import") /\ SkipWs(s, i + 6) > i + 6
         THEN The({IF froms = {} THEN 0 ELSE FromEnd(s, MinOf(froms)) :
                     froms \in {{f \in SkipWs(s, i + 6)..Len(s) : FromEnd(s, f) > 0}}})
         ELSE 0
    [] kind = "sideImport" ->
         IF MatchAt(s, i, "import") /\ SkipWs(s, i + 6) > i + 6
         THEN QuotedEnd(s, SkipWs(s, i + 6)) ELSE 0
    [] kind = "exportFunction" ->
         The({IF /\ MatchAt(s, i, "export") /\ a > i + 6
                 /\ MatchAt(s, a, "default") /\ b > a + 7
                 /\ MatchAt(s, b, "function") /\ c > b + 8
                 /\ SkipWord(s, c) > c
              THEN SkipWord(s, c) ELSE 0 :
                a \in {SkipWs(s, i + 6)},
                b \in {SkipWs(s, SkipWs(s, i + 6) + 7)},
                c \in {SkipWs(s, SkipWs(s, SkipWs(s, i + 6) + 7) + 8)}})
    [] kind = "exportDefault" ->
         The({IF /\ MatchAt(s, i, "export") /\ a > i + 6
                 /\ MatchAt(s, a, "default") /\ SkipWs(s, a + 7) > a + 7
              THEN SkipWs(s, a + 7) ELSE 0 :
                a \in {SkipWs(s, i + 6)}})
    [] kind = "export" ->
         IF MatchAt(s, i, "export") /\ SkipWs(s, i + 6) > i + 6
         THEN SkipWs(s, i + 6) ELSE 0
    [] kind = "blankLines" ->
         IF MatchAt(s, i, "\n\n\n") THEN SkipNewlines(s, i) ELSE 0

\* s.replace(pattern, by) for a pattern with the g flag: the matches are
\* replaced from left to right, each search starting behind the match before
RECURSIVE ReplaceAll(_, _, _)
ReplaceAll(kind, s0, by) ==
  The({The({IF starts = {} THEN s
            ELSE The({SubSeq(s, 1, i - 1) \o by
                        \o (IF e > Len(s) THEN ""
                            ELSE ReplaceAll(kind, SubSeq(s, e, Len(s)), by)) :
                        i \in {MinOf(starts)},
                        e \in {MatchEnd(kind, s, ls, MinOf(starts))}}) :
              starts \in {{i \in 1..Len(s) : MatchEnd(kind, s, ls, i) > 0}}}) :
         s \in {s0}, ls \in {ToLower(s0)}})

\* s.replace(/^[\s\n]*use\s+client[^;]*;?\s*/gi, ""): without the m flag the
\* pattern matches at the beginning of the text only
DropLeadingUseClient(s0) ==
  The({The({IF MatchAt(ls, a, "use") /\ SkipWs(s, a + 3) > a + 3
               /\ MatchAt(ls, SkipWs(s, a + 3), "client")
            THEN The({IF semi = 0 THEN ""
                      ELSE SubSeq(s, SkipWs(s, semi + 1), Len(s)) :
                        semi \in {IndexFrom(s, ";", SkipWs(s, a + 3) + 6)}})
            ELSE s :
              a \in {SkipWs(s, 1)}}) :
         s \in {s0}, ls \in {ToLower(s0)}})

\* transformedCode of POST: lines 56-86 of part_003, 37-67 of part_004
Transform(code) ==
  The({The({The({The({The({The({The({The({
    ReplaceAll("blankLines", Trim(t8), "\n\n") :
      t8 \in {ReplaceAll("export", t7, "")}}) :
      t7 \in {ReplaceAll("exportDefault", t6, "")}}) :
      t6 \in {ReplaceAll("exportFunction", t5, "function LessonComponent")}}) :
      t5 \in {ReplaceAll("sideImport", t4, "")}}) :
      t4 \in {ReplaceAll("import", t3, "")}}) :
      t3 \in {DropLeadingUseClient(t2)}}) :
      t2 \in {ReplaceAll("useClientLine", t1, "")}}) :
      t1 \in {ReplaceAll("useClient", code, "")}})

\* "code.length > 500000": the longest source the later definition compiles
MAX_CODE_LENGTH == 500000
\* "code.trim().length < 100": the shortest one
MIN_CODE_LENGTH == 100

(***************************************************************************)
(* ts.transpileModule is a library outside the repository. By the options  *)
(* of the handler (jsx: React, jsxFactory "React.createElement", module    *)
(* None, removeComments false) it turns every JSX element into a call of   *)
(* React.createElement and prints everything else again, comments          *)
(* included; it reports a text it cannot parse in diagnostics and does not *)
(* throw. The elements of the texts of this model and what they become:    *)
(***************************************************************************)
JsxElements ==
  << [jsx |-> "<p>Hi</p>", js |-> "React.createElement(\"p\", null, \"Hi\")"],
     [jsx |-> "<p dangerouslySetInnerHTML={{ __html: \"Hi\" }} />",
      js |-> "React.createElement(\"p\", { dangerouslySetInnerHTML: { __html: \"Hi\" } })"] >>

\* s with every occurrence of lit replaced by the string by
RECURSIVE ReplaceLit(_, _, _)
ReplaceLit(s0, lit, by) ==
  The({The({IF i = 0 THEN s
            ELSE SubSeq(s, 1, i - 1) \o by
                 \o ReplaceLit(SubSeq(s, i + Len(lit), Len(s)), lit, by) :
              i \in {IndexFrom(s, lit, 1)}}) :
         s \in {s0}})

RECURSIVE EmitJsx(_, _)
EmitJsx(s, k) ==
  IF k > Len(JsxElements) THEN s
  ELSE EmitJsx(ReplaceLit(s, JsxElements[k].jsx, JsxElements[k].js), k + 1)

\* result.outputText of ts.transpileModule(transformedCode, {compilerOptions}):
\* nothing for an empty text, else the statements with a line end
outputText(transformedCode) ==
  IF transformedCode = "" THEN "" ELSE EmitJsx(transformedCode, 1) \o "\n"

\* the dangerousPatterns of the later definition of the handler:
\* /\beval\s*\(/, /\bFunction\s*\(/ and /new\s+Function\s*\(/
UnsafeCalls == <<"eval", "Function">>

\* /\b<word>\s*\(/.test(s)
CallsWord(s, word) ==
  \E i \in 1..Len(s) :
    /\ MatchAt(s, i, word)
    /\ (i = 1 \/ ~IsWord(CharAt(s, i - 1)))
    /\ MatchAt(s, SkipWs(s, i + Len(word)), "(")

\* /new\s+Function\s*\(/.test(s)
CallsNewFunction(s) ==
  \E i \in 1..Len(s) :
    /\ MatchAt(s, i, "new")
    /\ SkipWs(s, i + 3) > i + 3
    /\ MatchAt(s, SkipWs(s, i + 3), "Function")
    /\ MatchAt(s, SkipWs(s, SkipWs(s, i + 3) + 8), "(")

\* for (const pattern of dangerousPatterns) if (pattern.test(result.outputText))
HasUnsafePattern(s) ==
  \/ \E k \in 1..Len(UnsafeCalls) : CallsWord(s, UnsafeCalls[k])
  \/ CallsNewFunction(s)

(***************************************************************************)
(* Requests to POST /api/compile. The body carries code, or no code. A     *)
(* code of up to MAX_CODE_LENGTH + 1 characters is a component followed by *)
(* a line end and a line comment, "// xxx...", that brings it to length:   *)
(* the model keeps the component and the length, and rewrites the comment  *)
(* as "// x". No expression of the handler matches inside the run of x.    *)
(***************************************************************************)
\* the statements that use one of the primitives of rule 6 of the validator
PrimitiveLines ==
  [ none |-> "",
    eval |-> "  eval(\"1\");\n",
    Function |-> "  const f = new Function(\"return 1\");\n",
    innerHTML |-> "  document.body.innerHTML = \"Hi\";\n",
    dangerouslySetInnerHTML |-> "",
    proto |-> "  const p = window.__proto__;\n",
    documentWrite |-> "  document.write(\"Hi\");\n" ]

Primitives == DOMAIN PrimitiveLines

\* a component with the import statement im, written as ex, that uses prim
CompileText(im, ex, prim) ==
  "\"use client\";\n" \o im.line \o ex.head \o "() {\n" \o PrimitiveLines[prim]
  \o (IF prim = "dangerouslySetInnerHTML"
      THEN "  return <p dangerouslySetInnerHTML={{ __html: \"Hi\" }} />;\n"
      ELSE "  return <p>Hi</p>;\n")
  \o "}\n"

NoImport == [line |-> "", targets |-> <<>>, breaks |-> <<>>]

NamedExport == [head |-> "export default function Lesson", entry |-> "Lesson"]

\* import statements and nothing else, MIN_CODE_LENGTH characters and more
ImportsOnly ==
  "import { useState, useEffect, useCallback } from \"react\";\n"
  \o "import { createRoot, hydrateRoot, flushSync } from \"react-dom\";\n"

\* the texts a request carries, with the modules they import from, the
\* identifier of their default export and the primitive they use
CompileTexts ==
  {[code |-> CompileText(im, ex, "none"), imports |-> im.targets,
    entry |-> ex.entry, primitive |-> "none"] : im \in ImportForms, ex \in ExportForms}
  \cup {[code |-> CompileText(NoImport, NamedExport, prim), imports |-> <<>>,
         entry |-> "Lesson", primitive |-> prim] : prim \in Primitives}
  \cup {[code |-> t, imports |-> <<>>, entry |-> NULL, primitive |-> "none"] :
          t \in BlankTexts}
  \cup {[code |-> ImportsOnly, imports |-> <<"react", "react-dom">>, entry |-> NULL,
         primitive |-> "none"]}

\* the lengths a text is sent with: its own, and the ones at the two limits
CodeLengths(code) ==
  {Len(code)}
  \cup {n \in {MIN_CODE_LENGTH - 1, MIN_CODE_LENGTH, MAX_CODE_LENGTH, MAX_CODE_LENGTH + 1} :
          n >= Len(code) + 5}

\* a body without code: "{}" or "{ code: null }"
NoBody ==
  [code |-> NULL, length |-> 0, imports |-> <<>>, entry |-> NULL, primitive |-> "none"]

CompileBodies ==
  {NoBody}
  \cup UNION {{[code |-> t.code, length |-> n, imports |-> t.imports,
                 entry |-> t.entry, primitive |-> t.primitive] :
                  n \in CodeLengths(t.code)} : t \in CompileTexts}

\* the code of body b as the model rewrites it
CodeOf(b) == IF b.length = Len(b.code) THEN b.code ELSE b.code \o "\n// x"

\* code.trim().length of the code of body b
TrimmedCodeLength(b) ==
  The({b.length - (Len(sent) - Len(Trim(sent))) : sent \in {CodeOf(b)}})

\* the handler has not returned
NoReply ==
  [status |-> 0, error |-> NULL, compiledCode |-> NULL, transformedCode |-> NULL,
   transpiled |-> FALSE]

\* NextResponse.json({ error }, { status }) before the transformation
Refused(status, error) ==
  [status |-> status, error |-> error, compiledCode |-> NULL,
   transformedCode |-> NULL, transpiled |-> FALSE]

\* The handler from "transformedCode = code" to its return. scans: the
\* definition checks the output for unsafe patterns.
Compiled(code, scans) ==
  The({The({
    IF Len(Trim(out)) = 0
    THEN [status |-> 500,
          error |-> "Compilation produced empty output. The code may be invalid.",
          compiledCode |-> NULL, transformedCode |-> t, transpiled |-> TRUE]
    ELSE IF scans /\ HasUnsafePattern(out)
    THEN [status |-> 500,
          error |-> "Compiled code contains unsafe patterns and cannot be executed",
          compiledCode |-> NULL, transformedCode |-> t, transpiled |-> TRUE]
    ELSE [status |-> 200, error |-> NULL, compiledCode |-> out,
          transformedCode |-> t, transpiled |-> TRUE] :
      out \in {outputText(t)}}) : t \in {Transform(code)}})

\* POST of the later definition (1) and of the earlier one (2), from
\* "const { code } = await req.json()" to the return, on body b
CompileResponse(def, b) ==
  IF b.code = NULL \/ b.length = 0 THEN Refused(400, "Code is required")
  ELSE IF def = 1 /\ b.length > MAX_CODE_LENGTH
  THEN Refused(413, "Code is too large (" \o ToString((b.length + 500) \div 1000)
                    \o "KB). Maximum allowed: 500KB")
  ELSE IF def = 1 /\ TrimmedCodeLength(b) < MIN_CODE_LENGTH
  THEN Refused(400, "Code is too short to be a valid component")
  ELSE Compiled(CodeOf(b), def = 1)

\* the lesson page: where it is, where "/" is, and what its origin stores
LessonUrl == "/lessons/1"
HomeUrl == "/"
HostData == "session"

(***************************************************************************)
(* The fetch utilities of part_001: fetchWithRetry, fetchWithTimeout,      *)
(* fetchWithRetryAndTimeout. fetch is the platform's: a call resolves with *)
(* a response, rejects with a network error, rejects with an AbortError    *)
(* when its signal is aborted, or stays pending.                           *)
(***************************************************************************)
\* "maxRetries = 3", the default of fetchWithRetry and fetchWithRetryAndTimeout
DEFAULT_MAX_RETRIES == 3

\* the calls are followed for maxRetries up to MaxMaxRetries
MaxMaxRetries == 4

\* response.status of the responses the server gives
Statuses == {200, 304, 404, 500, 503}

\* what a fetch settles with
Response(status) == [kind |-> "response", status |-> status, message |-> NULL]

Rejection(message) == [kind |-> "error", status |-> 0, message |-> message]

NetworkError == Rejection("Failed to fetch")

AbortError == Rejection("AbortError")

\* the fetch, or the call, has not settled
Pending == [kind |-> "pending", status |-> 0, message |-> NULL]

\* response.ok
IsOk(r) == r.kind = "response" /\ r.status >= 200 /\ r.status <= 299

\* response.ok || (response.status >= 400 && response.status < 500)
ReturnsAtOnce(r) == IsOk(r) \/ (r.status >= 400 /\ r.status < 500)

RECURSIVE Pow2(_)
Pow2(i) == IF i = 0 THEN 1 ELSE 2 * Pow2(i - 1)

\* a delay that grows by one second with every attempt
Backoff_Linear(i) == 1000 * (i + 1)

\* "const delay = 1000 * Math.pow(2, i)"
Backoff(i) == 1000 * Pow2(i)

\* no call: the state of the utilities before one of them is called
NoFetch ==
  [fn |-> "none", maxRetries |-> 0, pc |-> "idle", i |-> 0, fetches |-> <<>>,
   delays |-> <<>>, retried |-> Pending, result |-> Pending]

\* fetch(url, options) is called: signal tells whether options carries the
\* signal of an AbortController whose timer is armed
Fetching(n, signal) ==
  [n EXCEPT !.fetches = Append(n.fetches, [signal |-> signal, outcome |-> Pending])]

\* the fetch in flight settles with outcome
Settle(n, outcome) ==
  [n EXCEPT !.fetches[Len(n.fetches)].outcome = outcome]

\* fetchWithRetry has settled with outcome: the call of fetchWithRetry ends,
\* and fetchWithRetryAndTimeout goes on to its then-callback, which calls
\* fetchWithTimeout(url, options, timeout), when the promise is fulfilled
RetryEnds(n, outcome) ==
  IF n.fn = "fetchWithRetry"
  THEN [n EXCEPT !.pc = IF outcome.kind = "response" THEN "returned" ELSE "thrown",
                 !.retried = outcome, !.result = outcome]
  ELSE IF outcome.kind = "response"
  THEN Fetching([n EXCEPT !.pc = "timed", !.retried = outcome], TRUE)
  ELSE [n EXCEPT !.pc = "thrown", !.retried = outcome, !.result = outcome]

\* fetchWithRetry from the top of the loop, with the loop variable n.i, to
\* its next await or its end
LoopTop(n) ==
  IF n.i < n.maxRetries THEN Fetching([n EXCEPT !.pc = "fetch"], FALSE)
  ELSE RetryEnds(n, Rejection("Max retries exceeded"))

\* fetchWithRetry from the settling of "await fetch(url, options)" to its
\* next await or its end
AfterFetch(n, outcome) ==
  IF outcome.kind = "response"
  THEN IF ReturnsAtOnce(outcome) THEN RetryEnds(n, outcome)
       ELSE IF outcome.status >= 500 /\ n.i < n.maxRetries - 1
       THEN [n EXCEPT !.pc = "delay", !.delays = Append(n.delays, Backoff(n.i))]
       ELSE RetryEnds(n, outcome)
  ELSE IF n.i = n.maxRetries - 1 THEN RetryEnds(n, outcome)
       ELSE [n EXCEPT !.pc = "delay", !.delays = Append(n.delays, Backoff(n.i))]

\* fetchWithTimeout from the settling of its fetch to its end: an AbortError
\* becomes Error("Request timeout - please try again")
AfterTimedFetch(n, outcome) ==
  IF outcome.kind = "response" THEN [n EXCEPT !.pc = "returned", !.result = outcome]
  ELSE IF outcome = AbortError
  THEN [n EXCEPT !.pc = "thrown",
                 !.result = Rejection("Request timeout - please try again")]
  ELSE [n EXCEPT !.pc = "thrown", !.result = outcome]

(***************************************************************************)
(* lib/rate-limit.ts                                                       *)
(***************************************************************************)
\* The clock of the rate limiter counts milliseconds. The window of both
\* endpoints, "interval: 60 * 1000", is scaled down to 2 milliseconds.
RATE_INTERVAL == 2
\* "uniqueTokenPerInterval: 5" of POST /api/lessons/generate
GENERATE_LIMIT == 5
\* "uniqueTokenPerInterval: 30" of the compilation endpoint
COMPILE_LIMIT == 30

\* the clock is followed up to MaxClock, the calls of one window up to MaxCount
MaxClock == 3
MaxCount == 6

Endpoints == {"generate", "compile"}

\* the configuration each endpoint passes to rateLimit
ConfigOf(endpoint) ==
  [interval |-> RATE_INTERVAL,
   uniqueTokenPerInterval |->
     IF endpoint = "generate" THEN GENERATE_LIMIT ELSE COMPILE_LIMIT]

\* the headers of the callers: one behind a proxy, one without either header
Callers ==
  { [forwardedFor |-> "203.0.113.7,10.0.0.1", realIp |-> NULL],
    [forwardedFor |-> NULL, realIp |-> NULL] }

\* rateLimit: the key of the caller's window. The key is built from the
\* address alone; neither the endpoint nor the configuration is part of it.
ClientKey(headers) ==
  LET first == IF headers.forwardedFor = NULL THEN ""
               ELSE IF Includes(headers.forwardedFor, ",")
               THEN SubSeq(headers.forwardedFor, 1,
                           IndexFrom(headers.forwardedFor, ",", 1) - 1)
               ELSE headers.forwardedFor
      ip == IF first # "" THEN first
            ELSE IF headers.realIp # NULL /\ headers.realIp # ""
            THEN headers.realIp
            ELSE "127.0.0.1"
  IN  "ratelimit:" \o ip

\* the key of each caller
KeyTable == [h \in Callers |-> ClientKey(h)]

Keys == {KeyTable[h] : h \in Callers}

\* rateLimitStore.get(key) is undefined
NoWindow == [present |-> FALSE, count |-> 0, resetTime |-> 0]

\* a variant of Lookup: a call made in a window that is full starts the
\* interval of the window again
Lookup_Sliding(st, key, now, config) ==
  IF ~st[key].present \/ now > st[key].resetTime
  THEN [present |-> TRUE, count |-> 0, resetTime |-> now + config.interval]
  ELSE IF st[key].count >= config.uniqueTokenPerInterval
  THEN [st[key] EXCEPT !.resetTime = now + config.interval]
  ELSE st[key]

\* rateLimit, "if (!rateLimitEntry || now > rateLimitEntry.resetTime)": the
\* entry the call counts in, a new one when there is none or its window is over
Lookup(st, key, now, config) ==
  IF ~st[key].present \/ now > st[key].resetTime
  THEN [present |-> TRUE, count |-> 0, resetTime |-> now + config.interval]
  ELSE st[key]

\* a variant of Hit: an increment is lost when the entry has been counted in already
Hit_Lost(entry) ==
  IF entry.count = 0 THEN [entry EXCEPT !.count = 1] ELSE entry

\* "rateLimitEntry.count++"
Hit(entry) == [entry EXCEPT !.count = entry.count + 1]

\* a variant of IsLimitExceeded: the call that reaches the limit is refused
IsLimitExceeded_AtLimit(count, config) == count >= config.uniqueTokenPerInterval

\* "rateLimitEntry.count > config.uniqueTokenPerInterval"
IsLimitExceeded(count, config) == count > config.uniqueTokenPerInterval

\* rateLimit up to the clean-up: the store after the call and the object returned
rateLimit(st, key, now, config) ==
  LET rateLimitEntry == Hit(Lookup(st, key, now, config))
  IN  [store |-> [st EXCEPT ![key] = rateLimitEntry],
       result |->
         [success |-> ~IsLimitExceeded(rateLimitEntry.count, config),
          limit |-> config.uniqueTokenPerInterval,
          remaining |-> Max2(0, config.uniqueTokenPerInterval
                                  - rateLimitEntry.count),
          reset |-> rateLimitEntry.resetTime]]

\* a variant of IsOld: an entry is deleted from its reset time on
IsOld_AtReset(entry, now) == entry.present /\ now >= entry.resetTime

\* cleanupOldEntries, "if (now > entry.resetTime)"
IsOld(entry, now) == entry.present /\ now > entry.resetTime

\* cleanupOldEntries, now being the clock it reads
cleanupOldEntries(st, now) ==
  [k \in DOMAIN st |-> IF IsOld(st[k], now) THEN NoWindow ELSE st[k]]

\* no call has been made
NoCall ==
  [key |-> NULL, endpoint |-> NULL, now |-> 0, swept |-> FALSE, sweptAt |-> 0,
   result |-> [success |-> FALSE, limit |-> 0, remaining |-> 0, reset |-> 0],
   plain |-> [success |-> FALSE, limit |-> 0, remaining |-> 0, reset |-> 0],
   deleted |-> {}]

\* no call of the key has been counted
NotServed ==
  [started |-> FALSE, first |-> 0, n |-> 0, allowed |-> 0, by |-> {},
   windows |-> 0]

(***************************************************************************)
(* app/api/lessons/generate/route.ts and lib/database-utils.ts             *)
(***************************************************************************)
\* Time is counted in units of 10 minutes.
\* setTimeout(..., 10 * 60 * 1000) of generateLessonInBackground
GENERATION_TIMEOUT == 1
\* Date.now() - 10 * 60 * 1000 of cleanupStuckLessons
STUCK_THRESHOLD == 1

Ids == 1..MaxLessons

Outlines == {" Explain photosynthesis with an interactive diagram "}

NoRecord == [status |-> "absent"]

TimeoutError == [isError |-> TRUE, message |-> "Generation timeout after 10 minutes"]

StuckMessage ==
  "Generation timeout - the lesson took too long to generate. Please try again with a simpler prompt."

\* the row inserted by POST
NewLesson(outline) ==
  [title |-> "Generating...", outline |-> Trim(outline), status |-> "generating",
   generated_content |-> NULL, error_message |-> NULL]

\* supabase.from("lessons").update(fields): the fields named are assigned, the
\* others keep their values
ApplyUpdate(row, fields) ==
  [f \in DOMAIN row |-> IF f \in DOMAIN fields THEN fields[f] ELSE row[f]]

FailedUpdate(message) == [status |-> "failed", error_message |-> message]

\* JavaScript truthiness of an optional string
Truthy(v) == v # NULL /\ v # ""

\* generateLessonInBackground: the fields of the update issued once
\* Promise.race has settled (the try block for a fulfilled race, the catch
\* block for a rejected one)
TerminalUpdate(outcome) ==
  IF outcome.kind = "fulfilled"
  THEN LET result == outcome.result
       IN  IF result.success /\ Truthy(result.code) /\ Truthy(result.title)
           THEN IF Len(result.code) < 100
                THEN FailedUpdate("Generated code is too short to be valid")
                ELSE IF ~Includes(result.code, "export default function")
                        \/ ~Includes(result.code, "return")
                THEN FailedUpdate("Generated code missing required React component structure")
                ELSE [title |-> result.title, generated_content |-> result.code,
                      status |-> "generated"]
           ELSE FailedUpdate(IF Truthy(result.error) THEN result.error
                             ELSE "Code validation failed")
  ELSE FailedUpdate(IF outcome.error.isError THEN outcome.error.message
                    ELSE "Unexpected error during generation")

\* a variant of UpdateTargets: the update of a background task has no filter on the id
UpdateTargets_AllRows(lessonId) == Ids

\* .eq("id", lessonId): the rows an update of the background task applies to
UpdateTargets(lessonId) == {lessonId}

\* a variant of IsStuck: the update has no filter on the status
IsStuck_AnyStatus(row, rowAge) == rowAge > STUCK_THRESHOLD

\* cleanupStuckLessons: .eq("status", "generating").lt("created_at", timeoutThreshold)
IsStuck(row, rowAge) == row.status = "generating" /\ rowAge > STUCK_THRESHOLD

\* the requests POST /api/lessons/generate followed by the model
MaxRequests == 3

Reqs == 1..MaxRequests

\* the "outline" of the request bodies, NULL when the body has none
ApiOutlines ==
  {" Explain photosynthesis with an interactive diagram ", "aaaaaaaaaaaaa", NULL}

\* validateLessonPrompt on the outlines of the model
PromptTable == [o \in ApiOutlines |-> validateLessonPrompt(o)]

\* a request that has not arrived; a request that has, by where its handler
\* is: "select" (the query of the duplicate check is on its way to the
\* database), "insert" (so is the insert), "done" (answered)
NewRequest ==
  [pc |-> "new", headers |-> NULL, outline |-> NULL,
   \* History: the result of rateLimit, the rows that matched the query
   allowed |-> FALSE, seen |-> {},
   status |-> 0, error |-> NULL, lessonId |-> 0]

\* a variant of AdmissionError: the outline is not looked at
AdmissionError_None(outline) == NULL

\* POST, from "const { outline } = await request.json()" to the 400 answers:
\* the error of the answer, NULL when the outline is admitted
AdmissionError(outline) ==
  IF ~Truthy(outline) THEN "Lesson outline is required"
  ELSE IF ~PromptTable[outline].isValid THEN PromptTable[outline].error
  ELSE NULL

\* .eq("outline", outline.trim()).in("status", ["generating", "generated"])
\* .gte("created_at", fiveMinutesAgo): the ids of the rows selected, recent
\* being the ids of the rows created in the last 5 minutes
RecentDuplicates(table, recent, outline) ==
  {id \in recent : /\ table[id].status \in {"generating", "generated"}
                   /\ table[id].outline = Trim(outline)}

\* .select("id, status").maybeSingle() of supabase-js: the row when one row
\* is selected; null (0 here) when none is, and null together with an error,
\* which POST does not read, when several are
MaybeSingle(ids) == IF Cardinality(ids) = 1 THEN The(ids) ELSE 0

\* POST: the error of the 409 answer
DuplicateError(row) ==
  IF row.status = "generating"
  THEN "A similar lesson is already being generated. Please wait for it to complete."
  ELSE "This lesson was recently generated. Check your lesson list."

(***************************************************************************)
(* State                                                                   *)
(***************************************************************************)
VARIABLES
  genDef,    \* which of the two definitions of generateLesson the route imports
  lessons,   \* the lessons table: id -> row, NoRecord while the id is unused
  age,       \* id -> Date.now() - created_at, saturating above STUCK_THRESHOLD
  timer,     \* id -> the 10-minute timer of the row's background task
  bg,        \* id -> the background task generateLessonInBackground(id, outline);
             \*       timedOut (history): the timer settled the race
  gl,        \* id -> the run of generateLesson started by that task
  writers,   \* id -> who has updated the row since its insertion (history)
  clock,     \* Date.now() of the process that holds rateLimitStore
  store,     \* rateLimitStore: key -> entry, NoWindow while the key is not in it
  plainStore,\* the store the same calls leave when cleanupOldEntries never runs
  served,    \* key -> the calls since the first call of the key's window
             \*        (history): time of the first, number, endpoints called
  lastCall,  \* the last call of rateLimit and what it returned (history)
  req,       \* request -> the run of POST /api/lessons/generate that serves it
  fresh,     \* the ids of the rows with created_at >= Date.now() - 5 minutes
  source,    \* the argument of a call of validateTypeScriptCode on its own
  verdict,   \* what that call returned, NoVerdict until it has returned
  regexps,   \* the RegExp objects of the last call of validateTypeScriptCode
  seen,      \* text -> what its first validation returned (history)
  entered,   \* the argument of a call of validateLessonPrompt on its own
  admission, \* what that call returned, NoAdmission until it has returned
  compileDef, \* which of the two definitions of POST /api/compile is deployed
  posted,    \* the body of a request to POST /api/compile
  reply,     \* the response to it, NoReply until the handler has returned
  topUrl,    \* the location of the top-level page that shows a lesson
  hostStore, \* the storage of the top-level page's origin
  mailbox,   \* the message events queued at the top-level window
  net        \* a call of fetchWithRetry or fetchWithRetryAndTimeout

\* the variables of the rate limiter
rateVars == <<clock, store, plainStore, served, lastCall>>

\* the variables of the generation of lessons
lessonVars == <<genDef, lessons, age, timer, bg, gl, writers>>

\* the variables the generation of lessons leaves alone
\* the variables of the validator on its own
validatorVars == <<source, verdict, regexps, seen>>

\* the variables of the functions that are checked on their own
\* the variables of the admission filter on its own
promptVars == <<entered, admission>>

\* the variables of the compilation endpoint on its own
compileVars == <<compileDef, posted, reply>>

\* the variables of the lesson page and the frame it embeds
pageVars == <<topUrl, hostStore, mailbox>>

\* the variable of the fetch utilities on their own
netVars == <<net>>

apart == <<compileVars, pageVars, netVars>>

standalone == <<validatorVars, promptVars, apart>>

others == <<rateVars, req, fresh, standalone>>

vars == <<genDef, lessons, age, timer, bg, gl, writers, others>>

NoResult == [success |-> FALSE, code |-> NULL, title |-> NULL, error |-> NULL]

NoOutcome == [kind |-> "none"]

\* no code-generation call is in flight
NoPrompt == [kind |-> "none", outline |-> NULL, attempt |-> 0,
             draft |-> NULL, errorText |-> ""]

\* the prompt of generateLessonCode(outline, attempt), by what it is built
\* from: the outline and, from the second attempt on, the attempt number
\* ("This is attempt N. Previous attempts failed validation."); neither a
\* draft nor a violation is part of it
CodePrompt(outline, attempt) ==
  [kind |-> "generate", outline |-> outline, attempt |-> attempt,
   draft |-> NULL, errorText |-> ""]

\* a variant of FixPrompt: the repair prompt carries the draft without its violations
FixPrompt_NoErrors(def, code, errors) ==
  [kind |-> "fix", outline |-> NULL, attempt |-> 0,
   draft |-> code, errorText |-> ""]

\* fixPrompt of validateAndFixCode, by what it is built from: the violations
\* (numbered, one per line, in the first definition; one per line in the
\* second) and the draft; the outline is not part of it
FixPrompt(def, code, errors) ==
  [kind |-> "fix", outline |-> NULL, attempt |-> 0,
   draft |-> code,
   errorText |-> IF def = 1 THEN Numbered(errors)
                 ELSE Join(errors, "\n")]

IdleGl ==
  [pc |-> "none", retryCount |-> 0, title |-> NULL, code |-> NULL,
   result |-> NoResult,
   \* History, read by the properties only. Of the run in progress: the number
   \* of code-generation calls issued (fresh and repair) and whether a model
   \* call has thrown; both are cleared when the run returns. Of the last
   \* validation: the text validated and the number of validations run since
   \* the last answer of the model. Of the result: the path that produced it.
   calls |-> 0, threw |-> FALSE,
   lastValidated |-> NULL, valRuns |-> 0, path |-> "none",
   \* The prompt of the code-generation call in flight. History, cleared when
   \* the run returns: what ended the previous attempt of the run
   \* ("validation": its text failed validation, "throw": a call threw).
   prompt |-> NoPrompt, lastFailure |-> "none",
   \* History: the number of model calls of the run issued and not yet answered
   open |-> 0]

LessonInit ==
  /\ genDef \in {1, 2}
  /\ lessons = [i \in Ids |-> NoRecord]
  /\ age = [i \in Ids |-> 0]
  /\ timer = [i \in Ids |-> [state |-> "unset", elapsed |-> 0]]
  /\ bg = [i \in Ids |-> [pc |-> "none", outcome |-> NoOutcome, timedOut |-> FALSE]]
  /\ gl = [i \in Ids |-> IdleGl]
  /\ writers = [i \in Ids |-> {}]

\* no request has arrived
RateIdle ==
  /\ clock = 0
  /\ store = [k \in Keys |-> NoWindow]
  /\ plainStore = [k \in Keys |-> NoWindow]
  /\ served = [k \in Keys |-> NotServed]
  /\ lastCall = NoCall

ApiIdle ==
  /\ req = [r \in Reqs |-> NewRequest]
  /\ fresh = {}

ValidatorIdle ==
  /\ source = NoSource
  /\ verdict = NoVerdict
  /\ regexps = FreshRegExps
  /\ seen = [t \in RepeatTexts |-> NoVerdict]

PromptIdle ==
  /\ entered = NoOutline
  /\ admission = NoAdmission

\* no request to POST /api/compile has arrived
CompileIdle ==
  /\ compileDef = 1
  /\ posted = NoBody
  /\ reply = NoReply

\* the lesson page is open and its frame has not run
PageIdle ==
  /\ topUrl = LessonUrl
  /\ hostStore = HostData
  /\ mailbox = <<>>

\* none of the fetch utilities has been called
NetIdle == net = NoFetch

NoRequests ==
  ApiIdle /\ ValidatorIdle /\ PromptIdle /\ CompileIdle /\ PageIdle /\ NetIdle

Init ==
  /\ LessonInit
  /\ clock = 0
  /\ store = [k \in Keys |-> NoWindow]
  /\ plainStore = [k \in Keys |-> NoWindow]
  /\ served = [k \in Keys |-> NotServed]
  /\ lastCall = NoCall
  /\ NoRequests

(***************************************************************************)
(* generateLesson: one run per background task. The run is suspended at    *)
(* its model calls: pc names the call in flight.                           *)
(***************************************************************************)
\* "model.generateContent(...)": a call to the model is issued
Issued(g) == [g EXCEPT !.open = g.open + 1]

\* a variant of Settled: the run goes on without awaiting the call it issued
Settled_NotAwaited(g) == g

\* "await model.generateContent(...)": the run resumes when the call it
\* issued has answered or thrown
Settled(g) == [g EXCEPT !.open = g.open - 1]

\* a variant of Retry: the next attempt starts with the same retryCount
Retry_SameCount(g) ==
  Issued([g EXCEPT !.pc = "title",
                   !.title = NULL, !.code = NULL,
                   !.valRuns = 0, !.lastValidated = NULL, !.prompt = NoPrompt])

\* "return generateLesson({ outline, retryCount: retryCount + 1 })": the next
\* attempt starts and issues its title call
Retry(g) ==
  Issued([g EXCEPT !.pc = "title", !.retryCount = g.retryCount + 1,
                   !.title = NULL, !.code = NULL,
                   !.valRuns = 0, !.lastValidated = NULL, !.prompt = NoPrompt])

\* the run returns result
Return(g, result, path) ==
  [g EXCEPT !.pc = "returned", !.result = result, !.path = path,
            !.title = NULL, !.code = NULL, !.calls = 0, !.threw = FALSE,
            !.prompt = NoPrompt, !.lastFailure = "none"]

\* generateLesson from the line after "await validateAndFixCode(...)" on:
\* validation is what validateAndFixCode returned, g the run
AfterValidation(def, g, validation) ==
  IF ~validation.isValid
  THEN IF MayRetry(g.retryCount)
       THEN Retry([g EXCEPT !.lastFailure = "validation"])
       ELSE Return(g, Failure(ExhaustedError(def, validation.errors)), "exhausted")
  ELSE IF def = 1
  THEN \* the final safety check of the first definition
       LET finalCheck == Validate(validation.code)
           h == [g EXCEPT !.valRuns = g.valRuns + 1,
                          !.lastValidated = validation.code]
       IN  IF ~finalCheck.isValid
           THEN Return(h, Failure("Critical validation error: "
                                  \o Join(finalCheck.errors, ", ")), "final")
           ELSE Return(h, Success(ResultCode(validation, g.code), g.title), "accepted")
  ELSE Return(g, Success(ResultCode(validation, g.code), g.title), "accepted")

\* the catch block of generateLesson
AfterThrow(def, g, thrown) ==
  IF MayRetry(g.retryCount)
  THEN Retry([g EXCEPT !.threw = TRUE, !.lastFailure = "throw"])
  ELSE Return([g EXCEPT !.threw = TRUE], Failure(CaughtError(def, thrown)), "caught")

\* a variant of RaceSettled: the race waits for generateLesson and ignores the timer
RaceSettled_IgnoresTimer(task, outcome) ==
  IF task.pc = "racing" /\ outcome.kind = "fulfilled"
  THEN [task EXCEPT !.pc = "settled", !.outcome = outcome]
  ELSE task

\* a variant of RaceSettled: the promise that settles last decides the outcome of the race
RaceSettled_LastWins(task, outcome) ==
  IF task.pc \in {"racing", "settled"}
  THEN [task EXCEPT !.pc = "settled", !.outcome = outcome]
  ELSE task

\* a variant of RaceSettled: a rejection that arrives after the race has been
\* settled runs the handler of the task again
RaceSettled_TimerReopens(task, outcome) ==
  IF task.pc = "racing" \/ outcome.kind = "rejected"
  THEN [task EXCEPT !.pc = "settled", !.outcome = outcome]
  ELSE task

\* Promise.race([generateLesson({ outline }), timeoutPromise]): the race is
\* settled by the first of the two promises to settle; a promise that settles
\* after the race leaves the task untouched
RaceSettled(task, outcome) ==
  IF task.pc = "racing"
  THEN [task EXCEPT !.pc = "settled", !.outcome = outcome]
  ELSE task

\* the run of lesson id moves to g2; when it has returned, its promise settles
GlStep(id, g2) ==
  /\ gl' = [gl EXCEPT ![id] = g2]
  /\ bg' = IF g2.pc = "returned"
           THEN [bg EXCEPT ![id] =
                   RaceSettled(bg[id], [kind |-> "fulfilled", result |-> g2.result])]
           ELSE bg
  /\ UNCHANGED <<others, genDef, lessons, age, timer, writers>>

\* extractTitle answers; generateLessonCode is called
TitleReturns(id, text) ==
  /\ gl[id].pc = "title"
  /\ GlStep(id, Issued([Settled(gl[id]) EXCEPT
                          !.pc = "code", !.title = TitleTable[text],
                          !.calls = gl[id].calls + 1,
                          !.prompt = CodePrompt(lessons[id].outline,
                                                gl[id].retryCount + 1)]))

\* generateLessonCode answers; validateAndFixCode validates the draft and,
\* when it fails and attempt < MAX_RETRIES, asks the model for a repair
CodeReturns(id, raw) ==
  /\ gl[id].pc = "code"
  /\ LET code == CleanGeneratedTable[raw]
         attempt == gl[id].retryCount + 1
         validation == Validate(code)
         g == [Settled(gl[id]) EXCEPT !.code = code, !.valRuns = 1,
                                      !.lastValidated = code]
     IN  IF validation.isValid
         THEN GlStep(id, AfterValidation(genDef, g,
                           [isValid |-> TRUE, code |-> code, errors |-> <<>>]))
         ELSE IF MayRepair(attempt)
         THEN GlStep(id, Issued([g EXCEPT !.pc = "repair", !.calls = g.calls + 1,
                                          !.prompt = FixPrompt(genDef, code,
                                                               validation.errors)]))
         ELSE GlStep(id, AfterValidation(genDef, g,
                           [isValid |-> FALSE, code |-> code,
                            errors |-> validation.errors]))

\* the repair call answers; the repaired text is validated again
RepairReturns(id, raw) ==
  /\ gl[id].pc = "repair"
  /\ LET fixedCode == CleanFixedTable[genDef][raw]
         revalidation == Validate(fixedCode)
         g == [Settled(gl[id]) EXCEPT !.valRuns = 1, !.lastValidated = fixedCode]
     IN  GlStep(id, AfterValidation(genDef, g,
                      [isValid |-> revalidation.isValid, code |-> fixedCode,
                       errors |-> revalidation.errors]))

\* the model call in flight (title, code or repair) throws
ModelThrows(id, thrown) ==
  /\ gl[id].pc \in {"title", "code", "repair"}
  /\ GlStep(id, AfterThrow(genDef, Settled(gl[id]), thrown))

(***************************************************************************)
(* POST /api/lessons/generate and generateLessonInBackground               *)
(***************************************************************************)
\* the writers of the table: the background task of a row, the clean-up job
Task(id) == [kind |-> "task", id |-> id]

CleanupJob == [kind |-> "cleanup", id |-> 0]

\* generateLessonInBackground up to "await Promise.race(...)": the timer is
\* armed and generateLesson({ outline }) starts, issuing its title call.
\* (The task awaits createClient() and nothing else before the race; the
\* model takes the call by POST and the arrival at the race as one step.)
StartBackground(id) ==
  /\ timer' = [timer EXCEPT ![id] = [state |-> "armed", elapsed |-> 0]]
  /\ gl' = [gl EXCEPT ![id] = Issued([IdleGl EXCEPT !.pc = "title"])]
  /\ bg' = [bg EXCEPT ![id] = [pc |-> "racing", outcome |-> NoOutcome,
                               timedOut |-> FALSE]]

\* POST: the row is inserted in status "generating" and
\* generateLessonInBackground(lesson.id, outline.trim()) is called without
\* being awaited
CreateLesson(id, outline) ==
  /\ lessons[id] = NoRecord
  /\ \A j \in Ids : j < id => lessons[j] # NoRecord
  /\ lessons' = [lessons EXCEPT ![id] = NewLesson(outline)]
  /\ age' = [age EXCEPT ![id] = 0]
  /\ StartBackground(id)

\* POST for a request that has passed the checks of the handler
POST(outline) ==
  \E id \in Ids :
    /\ CreateLesson(id, outline)
    /\ UNCHANGED <<others, genDef, writers>>

\* the callback of setTimeout runs, no earlier than 10 minutes after the timer
\* was armed: timeoutPromise is rejected. The timer is never cleared.
TimerFires(id) ==
  /\ timer[id].state = "armed"
  /\ timer[id].elapsed >= GENERATION_TIMEOUT
  /\ timer' = [timer EXCEPT ![id].state = "fired"]
  /\ bg' = [bg EXCEPT ![id] =
              [RaceSettled(bg[id], [kind |-> "rejected", error |-> TimeoutError])
                 EXCEPT !.timedOut = (bg[id].pc = "racing")]]
  /\ UNCHANGED <<others, genDef, lessons, age, gl, writers>>

\* generateLessonInBackground after the race: the one update of the task
\* reaches the table, and the task ends
BgWrite(id) ==
  /\ bg[id].pc = "settled"
  /\ lessons' = [j \in Ids |->
                   IF j \in UpdateTargets(id) /\ lessons[j] # NoRecord
                   THEN ApplyUpdate(lessons[j], TerminalUpdate(bg[id].outcome))
                   ELSE lessons[j]]
  /\ writers' = [j \in Ids |->
                   IF j \in UpdateTargets(id) /\ lessons[j] # NoRecord
                   THEN writers[j] \cup {Task(id)} ELSE writers[j]]
  /\ bg' = [bg EXCEPT ![id].pc = "done"]
  /\ UNCHANGED <<others, genDef, age, timer, gl>>

\* cleanupStuckLessons: one UPDATE statement over the rows that are stuck
cleanupStuckLessons ==
  /\ lessons' = [j \in Ids |->
                   IF lessons[j] # NoRecord /\ IsStuck(lessons[j], age[j])
                   THEN ApplyUpdate(lessons[j], FailedUpdate(StuckMessage))
                   ELSE lessons[j]]
  /\ writers' = [j \in Ids |->
                   IF lessons[j] # NoRecord /\ IsStuck(lessons[j], age[j])
                   THEN writers[j] \cup {CleanupJob} ELSE writers[j]]
  /\ UNCHANGED <<others, genDef, age, timer, bg, gl>>

\* 10 minutes pass
Tick ==
  /\ age' = [j \in Ids |->
               IF lessons[j] # NoRecord /\ age[j] <= STUCK_THRESHOLD
               THEN age[j] + 1 ELSE age[j]]
  /\ timer' = [j \in Ids |->
                 IF timer[j].state = "armed" /\ timer[j].elapsed < GENERATION_TIMEOUT
                 THEN [timer[j] EXCEPT !.elapsed = timer[j].elapsed + 1]
                 ELSE timer[j]]
  /\ UNCHANGED <<others, genDef, lessons, bg, gl, writers>>

Next ==
  \/ \E o \in Outlines : POST(o)
  \/ \E id \in Ids : \E text \in TitleResponses : TitleReturns(id, text)
  \/ \E id \in Ids : \E raw \in CodeResponses : CodeReturns(id, raw)
  \/ \E id \in Ids : \E raw \in CodeResponses : RepairReturns(id, raw)
  \/ \E id \in Ids : \E thrown \in ThrownValues : ModelThrows(id, thrown)
  \/ \E id \in Ids : TimerFires(id)
  \/ \E id \in Ids : BgWrite(id)
  \/ cleanupStuckLessons
  \/ Tick

Spec == Init /\ [][Next]_vars

TypeOK ==
  /\ genDef \in {1, 2}
  /\ \A id \in Ids :
       /\ lessons[id].status \in {"absent", "generating", "generated", "failed"}
       /\ gl[id].retryCount \in 0..(MAX_RETRIES - 1)

(***************************************************************************)
(* Properties                                                              *)
(***************************************************************************)
Terminal == {"generated", "failed"}

\* the run of lesson id returns in this step
Returns(id) == gl[id].pc # "returned" /\ gl'[id].pc = "returned"

\* C1: a row has status "generated" only if its generated_content is a text
\* that validateTypeScriptCode accepts, with isValid true and no violation:
\* text of the model that fails validation is never stored as
\* generated_content.
C1_OnlyValidatedCodePersisted ==
  \A id \in Ids :
    lessons[id].status = "generated" =>
      /\ lessons[id].generated_content # NULL
      /\ Verdict(lessons[id].generated_content).isValid
      /\ Verdict(lessons[id].generated_content).errors = <<>>

\* a row was stored as generated in a run in which a draft had failed
\* validation and was repaired or regenerated
C1_Witness ==
  \E id \in Ids :
    /\ lessons[id].status = "generated"
    /\ lessons[id].generated_content = ValidLesson
    /\ gl[id].path = "accepted"
    /\ gl[id].retryCount > 0

\* C2 as stated: a run of generateLesson that returns success = false has made
\* at most MAX_RETRIES = 3 code-generation calls, fresh and repair calls
\* counted together.
C2_AtMostThreeCalls ==
  [][\A id \in Ids :
       Returns(id) /\ ~gl'[id].result.success => gl[id].calls <= MAX_RETRIES]_vars

\* C2, amended: a run of generateLesson never makes more than
\* 2 * MAX_RETRIES - 1 = 5 code-generation calls (one fresh call in each of the
\* 3 attempts, one repair call in attempts 1 and 2), and a run in which every
\* draft fails validation and no call throws returns success = false after
\* exactly 5 such calls.
C2_AtMostFiveCalls ==
  /\ [](\A id \in Ids : gl[id].calls <= 2 * MAX_RETRIES - 1)
  /\ [][\A id \in Ids :
          Returns(id) /\ gl'[id].path = "exhausted" /\ ~gl[id].threw
            => gl[id].calls = 2 * MAX_RETRIES - 1]_vars

\* the fifth code-generation call of a run is in flight: every draft so far
\* has failed validation and no call has thrown
C2_Witness ==
  \E id \in Ids :
    /\ gl[id].pc = "code"
    /\ gl[id].calls = 2 * MAX_RETRIES - 1
    /\ ~gl[id].threw

\* C3 as stated: a row starts in status "generating" and once its status is
\* "generated" or "failed" no later step changes the status again.
C3_StatusChangesOnce ==
  [][\A id \in Ids :
       /\ lessons[id].status = "absent" =>
            lessons'[id].status \in {"absent", "generating"}
       /\ lessons[id].status \in Terminal =>
            lessons'[id].status = lessons[id].status]_vars

\* C4 as stated: in every row generated_content is non-null exactly when the
\* status is "generated" and error_message is non-null exactly when the status
\* is "failed".
C4_ContentIffGenerated ==
  \A id \in Ids :
    lessons[id] # NoRecord =>
      /\ lessons[id].generated_content # NULL <=> lessons[id].status = "generated"
      /\ lessons[id].error_message # NULL <=> lessons[id].status = "failed"

\* The event loop runs a timer callback that is due and the continuation of a
\* settled race, and time passes. Nothing is assumed of the model: a call may
\* never answer.
Fairness ==
  /\ WF_vars(Tick)
  /\ \A id \in Ids : WF_vars(TimerFires(id)) /\ WF_vars(BgWrite(id))

\* the number of requests in the behaviours checked for liveness
LiveLessons == 1

\* Next, with POST called LiveLessons times at most
LiveNext == Next /\ \A id \in Ids : id > LiveLessons => lessons'[id] = NoRecord

LiveSpec == Init /\ [][LiveNext]_vars /\ Fairness

C6_TimeoutWinsTheRace ==
  \A id \in Ids :
    bg[id].timedOut =>
      /\ bg[id].outcome = [kind |-> "rejected", error |-> TimeoutError]
      /\ bg[id].pc = "settled" => ENABLED BgWrite(id)
      /\ bg[id].pc = "done" =>
           /\ lessons[id].status = "failed"
           /\ lessons[id].error_message = TimeoutError.message
           /\ lessons[id].generated_content = NULL

\* the timer settled the race, the task wrote "failed", and the run of
\* generateLesson returned a successful result afterwards or meanwhile
C6_Witness ==
  \E id \in Ids :
    /\ bg[id].timedOut
    /\ bg[id].pc = "done"
    /\ gl[id].pc = "returned"
    /\ gl[id].result.success
    /\ Len(gl[id].result.code) >= 100
    /\ lessons[id].status = "failed"

\* C7 as stated: a row is updated by the background task started for it and by
\* nothing else, neither another background task nor cleanupStuckLessons.
C7_OnlyOwnerWrites ==
  \A id \in Ids : writers[id] \subseteq {Task(id)}

\* C7, amended: a row is updated only by the background task started for it
\* and by cleanupStuckLessons; the background task of another request never
\* writes to it.
C7_OwnerOrCleanup ==
  \A id \in Ids : writers[id] \subseteq {Task(id), CleanupJob}

\* two rows exist, the task of each has issued its update, and
\* cleanupStuckLessons has written to one of them as well
C7_Witness ==
  /\ \A id \in Ids : bg[id].pc = "done" /\ Task(id) \in writers[id]
  /\ \E id \in Ids : CleanupJob \in writers[id]

\* C8 as stated: whenever generateLesson has returned success = true,
\* validateTypeScriptCode was run a second time, after the validation that
\* accepted the code and with no model call in between, on exactly the code
\* returned; a result of the final validation that reports a violation is
\* never a success.
C8_FinalRevalidation ==
  \A id \in Ids :
    gl[id].pc = "returned" =>
      /\ gl[id].result.success =>
           /\ gl[id].valRuns >= 2
           /\ gl[id].lastValidated = gl[id].result.code
      /\ gl[id].path = "final" => ~gl[id].result.success

\* text carries the members of list, each of them whole, in the order of list
RECURSIVE CarriesFrom(_, _, _)
CarriesFrom(text, list, from) ==
  IF list = <<>> THEN TRUE
  ELSE LET at == IndexFrom(text, Head(list), from)
       IN  at # 0 /\ CarriesFrom(text, Tail(list), at + Len(Head(list)))

Carries(text, list) == text # NULL /\ CarriesFrom(text, list, 1)

C10_ThrowConsumesOneAttempt ==
  [][\A id \in Ids : \A thrown \in ThrownValues :
       ModelThrows(id, thrown) =>
         IF gl[id].retryCount < MAX_RETRIES - 1
         THEN /\ gl'[id].pc = "title"
              /\ gl'[id].retryCount = gl[id].retryCount + 1
              /\ bg'[id] = bg[id]
         ELSE /\ gl'[id].pc = "returned"
              /\ gl'[id].retryCount = gl[id].retryCount
              /\ ~gl'[id].result.success
              /\ thrown.isError => gl'[id].result.error = thrown.message]_vars

\* a call of the third attempt threw an Error and the run returned its message
C10_Witness ==
  \E id \in Ids :
    /\ gl[id].pc = "returned"
    /\ gl[id].path = "caught"
    /\ gl[id].retryCount = MAX_RETRIES - 1
    /\ ~gl[id].result.success
    /\ gl[id].result.error = "fetch failed"

(***************************************************************************)
(* C11: the context of the code-generation calls                           *)
(***************************************************************************)
\* the code-generation call of the run of lesson id is in flight
CodeCallInFlight(id) == gl[id].pc \in {"code", "repair"}

\* C11, as stated: whenever a text of the run has failed validation and
\* attempts remained, the code-generation call that follows carries the
\* failing draft as repair context; no such call is built from the outline
\* alone.
C11_EveryCallAfterFailureCarriesDraft ==
  \A id \in Ids :
    CodeCallInFlight(id)
      /\ (gl[id].pc = "repair" \/ gl[id].lastFailure = "validation")
    => gl[id].prompt.draft # NULL

\* C11, amended: the repair call of an attempt carries the failing draft of
\* that attempt and each of its violations, and is made in attempts 1 and 2
\* only; the generation call that opens an attempt is built from the outline
\* and the attempt number alone, also when the previous attempt ended with a
\* text that failed validation.
C11_RepairCarriesDraft ==
  \A id \in Ids :
    /\ gl[id].pc = "repair" =>
         /\ gl[id].prompt.kind = "fix"
         /\ gl[id].prompt.draft = gl[id].code
         /\ ~Verdict(gl[id].code).isValid
         /\ Carries(gl[id].prompt.errorText, Verdict(gl[id].code).errors)
         /\ gl[id].retryCount + 1 < MAX_RETRIES
    /\ gl[id].pc = "code" =>
         /\ gl[id].prompt = CodePrompt(lessons[id].outline, gl[id].retryCount + 1)
         /\ gl[id].prompt.draft = NULL

\* a repair call is in flight for a draft with several violations, and a
\* generation call is in flight after an attempt that ended in a failed text
C11_Witness ==
  /\ gl[1].pc = "repair"
  /\ Len(Verdict(gl[1].code).errors) > 1
  /\ gl[2].pc = "code"
  /\ gl[2].lastFailure = "validation"

(***************************************************************************)
(* C12: one model call at a time                                           *)
(***************************************************************************)
\* C12: a run of generateLesson has at most one model call in flight: a call
\* is open exactly while the run is suspended at it, and the generation call
\* in flight is the one of the attempt the run is in, so an attempt has
\* finished its calls when the next one issues its first.
C12_OneCallInFlight ==
  \A id \in Ids :
    /\ gl[id].open \in {0, 1}
    /\ gl[id].open = 1 <=> gl[id].pc \in {"title", "code", "repair"}
    /\ gl[id].prompt.kind = "generate" =>
         gl[id].prompt.attempt = gl[id].retryCount + 1

\* both runs are suspended at a call: one at a repair call, the other at the
\* title call of its third attempt
C12_Witness ==
  /\ gl[1].pc = "repair" /\ gl[1].open = 1
  /\ gl[2].pc = "title" /\ gl[2].retryCount = 2 /\ gl[2].open = 1

(***************************************************************************)
(* C13: termination of generateLesson                                      *)
(***************************************************************************)
\* the model call in flight of the run of lesson id answers or throws
ModelAnswers(id) ==
  \/ \E text \in TitleResponses : TitleReturns(id, text)
  \/ \E raw \in CodeResponses : CodeReturns(id, raw)
  \/ \E raw \in CodeResponses : RepairReturns(id, raw)
  \/ \E thrown \in ThrownValues : ModelThrows(id, thrown)

\* every model call eventually answers or throws; nothing is assumed about
\* the timer or the database
RunSpec == Init /\ [][LiveNext]_vars /\ \A id \in Ids : WF_vars(ModelAnswers(id))

\* the run of lesson id starts its next attempt
RetryStep(id) ==
  /\ gl[id].pc \in {"title", "code", "repair"}
  /\ gl'[id].pc = "title"
  /\ gl'[id] # gl[id]

\* C13: retryCount is 0, 1 or 2; it changes only when the run retries, and
\* then by exactly one; no run retries at retryCount = 2; and, every model
\* call answering or throwing, a run that has started returns.
C13_TerminatesWithinThreeAttempts ==
  /\ [](\A id \in Ids : gl[id].retryCount \in 0..(MAX_RETRIES - 1))
  /\ [][\A id \in Ids :
          /\ RetryStep(id) =>
               /\ gl'[id].retryCount = gl[id].retryCount + 1
               /\ gl[id].retryCount < MAX_RETRIES - 1
          /\ gl'[id].retryCount # gl[id].retryCount => RetryStep(id)]_vars
  /\ \A id \in Ids :
       (gl[id].pc \in {"title", "code", "repair"}) ~> (gl[id].pc = "returned")

\* a run has returned from its third attempt, after two retries
C13_Witness ==
  /\ gl[1].pc = "returned"
  /\ gl[1].retryCount = MAX_RETRIES - 1
  /\ gl[1].path \in {"exhausted", "caught"}

(***************************************************************************)
(* rateLimit as a state machine: calls of the two endpoints by the callers *)
(* in any order, and the clock                                             *)
(***************************************************************************)
\* one call "await rateLimit(request, config)" by an endpoint: the function
\* has no await in its body and runs from its first line to its return
\* without another call running in between. sweep: Math.random() < 0.01, the
\* call ends with cleanupOldEntries(); slip: the milliseconds that pass
\* between the Date.now() of rateLimit and the one of cleanupOldEntries.
RateLimitRun(headers, endpoint, sweep, slip) ==
  LET key == KeyTable[headers]
      config == ConfigOf(endpoint)
      now == clock
      call == rateLimit(store, key, now, config)
      plain == rateLimit(plainStore, key, now, config)
      after == IF sweep THEN cleanupOldEntries(call.store, now + slip)
               ELSE call.store
  IN  /\ now + slip <= MaxClock
      /\ ~sweep => slip = 0
      /\ clock' = now + slip
      /\ store' = after
      /\ plainStore' = plain.store
      /\ served' =
           [served EXCEPT ![key] =
              IF ~served[key].started \/ now > served[key].first + config.interval
              THEN [started |-> TRUE, first |-> now, n |-> 1,
                    allowed |-> IF call.result.success THEN 1 ELSE 0,
                    by |-> {endpoint}, windows |-> served[key].windows + 1]
              ELSE [served[key] EXCEPT
                      !.n = served[key].n + 1,
                      !.allowed = IF call.result.success
                                  THEN served[key].allowed + 1
                                  ELSE served[key].allowed,
                      !.by = served[key].by \cup {endpoint}]]
      /\ lastCall' =
           [key |-> key, endpoint |-> endpoint, now |-> now, swept |-> sweep,
            sweptAt |-> now + slip,
            result |-> call.result, plain |-> plain.result,
            deleted |-> {[key |-> k, resetTime |-> call.store[k].resetTime] :
                           k \in {j \in Keys : /\ call.store[j].present
                                               /\ ~after[j].present}}]

\* the calls of one window are followed up to MaxCount
RateLimitCall(headers, endpoint, sweep, slip) ==
  /\ Lookup(store, KeyTable[headers], clock, ConfigOf(endpoint)).count < MaxCount
  /\ Lookup(plainStore, KeyTable[headers], clock, ConfigOf(endpoint)).count < MaxCount
  /\ RateLimitRun(headers, endpoint, sweep, slip)

\* a call of rateLimit by one of the endpoints, whatever the endpoint does next
RateLimited(headers, endpoint, sweep, slip) ==
  /\ RateLimitCall(headers, endpoint, sweep, slip)
  /\ UNCHANGED <<lessonVars, req, fresh, standalone>>

\* a millisecond passes
MillisecondPasses ==
  /\ clock < MaxClock
  /\ clock' = clock + 1
  /\ UNCHANGED <<lessonVars, store, plainStore, served, lastCall, req, fresh, standalone>>

RateNext ==
  \/ \E headers \in Callers : \E endpoint \in Endpoints :
       \E sweep \in BOOLEAN : \E slip \in {0, 1} :
         RateLimited(headers, endpoint, sweep, slip)
  \/ MillisecondPasses

RateInit == Init /\ genDef = 1

RateSpec == RateInit /\ [][RateNext]_vars

(***************************************************************************)
(* C14: who is allowed                                                     *)
(***************************************************************************)
\* C14: a call is allowed iff the number of calls of its key since the first
\* call of the key's window, itself included, is at most the limit of its
\* configuration (with the limit 5: the first five calls of a window are
\* allowed, the sixth is refused); the result tells the calls that remain and
\* the end of the window; and the first call of a window, also of one that
\* follows a window that is over, is allowed.
C14_AllowedIffWithinLimit ==
  lastCall.key # NULL =>
    LET s == served[lastCall.key]
        config == ConfigOf(lastCall.endpoint)
    IN  /\ lastCall.result.success <=> s.n <= config.uniqueTokenPerInterval
        /\ lastCall.endpoint = "generate" =>
             (lastCall.result.success <=> s.n <= 5)
        /\ lastCall.result.remaining =
             Max2(0, config.uniqueTokenPerInterval - s.n)
        /\ lastCall.result.reset = s.first + config.interval
        /\ s.n = 1 => lastCall.result.success /\ s.first = lastCall.now

\* the sixth call of a window in which only the generation endpoint was
\* called is refused, and another key is in its second window
C14_Witness ==
  /\ lastCall.endpoint = "generate"
  /\ served[lastCall.key].by = {"generate"}
  /\ served[lastCall.key].n = 6
  /\ ~lastCall.result.success
  /\ \E k \in Keys : served[k].windows = 2 /\ served[k].n = 1

(***************************************************************************)
(* C15: the quotas of the two endpoints                                    *)
(***************************************************************************)
\* C15, as stated: a call of one endpoint changes nothing for the other
\* endpoint: what a call of the other endpoint by the same caller would be
\* answered at that moment (allowed or not, calls remaining, reset time) is
\* the same before and after the call.
C15_IndependentQuotas ==
  [][\A e \in Endpoints :
       lastCall' # lastCall /\ lastCall'.endpoint # e =>
         rateLimit(store', lastCall'.key, clock', ConfigOf(e)).result
           = rateLimit(store, lastCall'.key, clock', ConfigOf(e)).result]_vars

(***************************************************************************)
(* C16: no call is lost                                                    *)
(***************************************************************************)
\* C16: whatever the order in which the calls of the callers run, the entry
\* of a key counts every call of the key's window: after n calls its count is
\* n and its reset time is the one set by the first of them; of the n calls
\* of a window in which one endpoint was called, exactly the first
\* min(n, limit) were allowed.
C16_NoLostUpdate ==
  \A k \in Keys :
    /\ store[k].present =>
         /\ store[k].count = served[k].n
         /\ store[k].resetTime = served[k].first + RATE_INTERVAL
    /\ plainStore[k].present <=> served[k].started
    /\ \A e \in Endpoints :
         served[k].by = {e} =>
           served[k].allowed =
             IF served[k].n <= ConfigOf(e).uniqueTokenPerInterval
             THEN served[k].n ELSE ConfigOf(e).uniqueTokenPerInterval
    /\ served[k].allowed <= served[k].n

\* both callers have called in the same millisecond; one of them has made
\* six calls to the generation endpoint in its window, five of them allowed
C16_Witness ==
  \E k1, k2 \in Keys :
    /\ k1 # k2
    /\ store[k1].present /\ store[k2].present
    /\ served[k1].first = served[k2].first
    /\ served[k1].by = {"generate"}
    /\ store[k1].count = 6
    /\ served[k1].allowed = 5

(***************************************************************************)
(* C17: the clean-up of old entries                                        *)
(***************************************************************************)
\* every call is answered what it is answered when cleanupOldEntries never
\* runs, and an entry is deleted only when its reset time is before the
\* clock read by cleanupOldEntries
EvictionIsTransparent ==
  /\ lastCall.result = lastCall.plain
  /\ \A d \in lastCall.deleted : lastCall.swept /\ d.resetTime < lastCall.sweptAt

\* C17, as stated: eviction is transparent, and cleanupOldEntries never
\* deletes the entry of the call in progress.
C17_NeverDeletesWindowInUse ==
  /\ EvictionIsTransparent
  /\ \A d \in lastCall.deleted : d.key # lastCall.key

\* C17, amended: eviction is transparent; the entry of the call in progress
\* is deleted only when the call was made exactly at the reset time of its
\* window and the clock has moved on before cleanupOldEntries reads it.
C17_TransparentEviction ==
  /\ EvictionIsTransparent
  /\ \A d \in lastCall.deleted :
       d.key = lastCall.key =>
         /\ lastCall.now = d.resetTime
         /\ lastCall.sweptAt > lastCall.now

\* a call has deleted the window of another key after that key was refused,
\* and the call is answered as if nothing had ever been deleted
C17_Witness ==
  /\ lastCall.swept
  /\ \E d \in lastCall.deleted :
       /\ d.key # lastCall.key
       /\ served[d.key].n > served[d.key].allowed
  /\ served[lastCall.key].windows = 2
  /\ lastCall.result = lastCall.plain

(***************************************************************************)
(* POST /api/lessons/generate as a state machine: the handlers of several  *)
(* requests run interleaved, each suspended at its awaits                  *)
(***************************************************************************)
\* the handler of request r answers
Answer(r, status, error, lessonId) ==
  [req[r] EXCEPT !.pc = "done", !.status = status, !.error = error,
                 !.lessonId = lessonId]

\* POST from its first line to "await supabase...maybeSingle()": the quota,
\* the body, the admission filter; the query of the duplicate check is issued
Receive(r, headers, outline, sweep) ==
  /\ req[r].pc = "new"
  /\ \A q \in Reqs : q < r => req[q].pc # "new"
  /\ RateLimitCall(headers, "generate", sweep, 0)
  /\ LET arrived == [req[r] EXCEPT !.headers = headers, !.outline = outline,
                                   !.allowed = lastCall'.result.success]
     IN  req' = [req EXCEPT ![r] =
                   IF ~lastCall'.result.success
                   THEN [arrived EXCEPT !.pc = "done", !.status = 429,
                                        !.error = "Rate limit exceeded"]
                   ELSE IF AdmissionError(outline) # NULL
                   THEN [arrived EXCEPT !.pc = "done", !.status = 400,
                                        !.error = AdmissionError(outline)]
                   ELSE [arrived EXCEPT !.pc = "select"]]
  /\ UNCHANGED <<lessonVars, fresh, standalone>>

\* the database runs the query of the duplicate check and POST goes on to
\* "await supabase...insert(...)": a 409 answer, or the insert is issued
SelectRecent(r) ==
  /\ req[r].pc = "select"
  /\ LET found == RecentDuplicates(lessons, fresh, req[r].outline)
         recentLesson == MaybeSingle(found)
     IN  req' = [req EXCEPT ![r] =
                   IF recentLesson # 0
                   THEN [Answer(r, 409, DuplicateError(lessons[recentLesson]),
                                recentLesson) EXCEPT !.seen = found]
                   ELSE [req[r] EXCEPT !.pc = "insert", !.seen = found]]
  /\ UNCHANGED <<lessonVars, rateVars, fresh, standalone>>

\* the database runs the insert and POST goes on to its end: the background
\* task is started and the row is sent back
InsertLesson(r) ==
  /\ req[r].pc = "insert"
  /\ \E id \in Ids :
       /\ CreateLesson(id, req[r].outline)
       /\ fresh' = fresh \cup {id}
       /\ req' = [req EXCEPT ![r] = Answer(r, 200, NULL, id)]
  /\ UNCHANGED <<genDef, writers, rateVars, standalone>>

\* five minutes pass: no row of the table is recent any more
FiveMinutesPass ==
  /\ fresh # {}
  /\ fresh' = {}
  /\ UNCHANGED <<lessonVars, rateVars, req, standalone>>

\* the requests come from one caller, the one behind the proxy
ApiCallers == {h \in Callers : h.forwardedFor # NULL}

\* the quota of the caller when the first request arrives: untouched, or all
\* but one call of its window used
ApiInit ==
  /\ LessonInit /\ genDef = 1
  /\ NoRequests
  /\ clock = 0
  /\ lastCall = NoCall
  /\ \E used \in {0, GENERATE_LIMIT - 1} :
       LET k0 == KeyTable[The(ApiCallers)]
       IN  /\ store = [k \in Keys |->
                         IF k = k0 /\ used > 0
                         THEN [present |-> TRUE, count |-> used,
                               resetTime |-> RATE_INTERVAL]
                         ELSE NoWindow]
           /\ plainStore = store
           /\ served = [k \in Keys |->
                          IF k = k0 /\ used > 0
                          THEN [started |-> TRUE, first |-> 0, n |-> used,
                                allowed |-> used, by |-> {"generate"},
                                windows |-> 1]
                          ELSE NotServed]

ApiNext ==
  \/ \E r \in Reqs : \E headers \in ApiCallers : \E outline \in ApiOutlines :
       \E sweep \in BOOLEAN : Receive(r, headers, outline, sweep)
  \/ \E r \in Reqs : SelectRecent(r)
  \/ \E r \in Reqs : InsertLesson(r)
  \/ FiveMinutesPass
  \/ \E id \in Ids : \E text \in TitleResponses : TitleReturns(id, text)
  \/ \E id \in Ids : CodeReturns(id, ShortLesson)
  \/ \E id \in Ids : ModelThrows(id, [isError |-> TRUE, message |-> "fetch failed"])
  \/ \E id \in Ids : BgWrite(id)

ApiSpec == ApiInit /\ [][ApiNext]_vars

(***************************************************************************)
(* C18: the order of the checks of the generation endpoint                 *)
(***************************************************************************)
\* the outline of request r passes the admission filter
Admitted(r) ==
  Truthy(req[r].outline) /\ PromptTable[req[r].outline].isValid

\* C18: a request is answered 429 exactly when its quota is used up,
\* whatever its outline; 400 exactly when it is within the quota and its
\* outline is missing or refused by the admission filter; 409 only when it is
\* within the quota and admitted; only a request that passed the three
\* checks reaches the insert. The rows of the table and the runs of
\* generateLesson are those of the requests answered with a lesson, one
\* each. The outline "aaaaaaaaaaaaa", within the quota, is answered 400.
C18_ChecksInOrder ==
  /\ \A r \in Reqs :
       req[r].pc # "new" =>
         /\ req[r].status = 429 <=> ~req[r].allowed
         /\ req[r].status = 400 <=> req[r].allowed /\ ~Admitted(r)
         /\ req[r].status = 409 =>
              req[r].allowed /\ Admitted(r) /\ req[r].seen = {req[r].lessonId}
         /\ req[r].pc = "insert" \/ req[r].status = 200 =>
              req[r].allowed /\ Admitted(r)
         /\ req[r].outline = "aaaaaaaaaaaaa" /\ req[r].allowed =>
              /\ req[r].status = 400
              /\ req[r].error = "Please enter a valid lesson-related prompt"
  /\ \A id \in Ids :
       lessons[id] # NoRecord \/ gl[id].pc # "none" =>
         /\ Cardinality({r \in Reqs : req[r].status = 200 /\ req[r].lessonId = id}) = 1
         /\ lessons[id] # NoRecord
  /\ \A r \in Reqs : req[r].status = 200 => lessons[req[r].lessonId] # NoRecord

\* three requests with the outline "aaaaaaaaaaaaa": the first two are
\* answered 400, the third, with the quota used up, 429; there is no row and
\* no call to the model
C18_Witness ==
  /\ \E r1, r2 \in Reqs :
       /\ req[r1].outline = "aaaaaaaaaaaaa" /\ req[r1].status = 400
       /\ req[r2].outline = "aaaaaaaaaaaaa" /\ req[r2].status = 429
  /\ \A id \in Ids : lessons[id] = NoRecord /\ gl[id].pc = "none" /\ gl[id].open = 0

(***************************************************************************)
(* C19: the duplicate check                                                *)
(***************************************************************************)
\* C19, as stated: a request whose outline is the one of a row created in
\* the last 5 minutes and in status "generating" or "generated" is answered
\* 409 and creates nothing; so no two such rows have the same outline.
C19_DuplicatesAnswered409 ==
  /\ \A r \in Reqs : req[r].seen # {} => req[r].status = 409
  /\ \A i, j \in fresh :
       /\ i # j
       /\ lessons[i].status \in {"generating", "generated"}
       /\ lessons[j].status \in {"generating", "generated"}
       => lessons[i].outline # lessons[j].outline

(***************************************************************************)
(* The validator on its own: validateTypeScriptCode is called on a source  *)
(* text and returns.                                                       *)
(***************************************************************************)
ValidateSource ==
  /\ verdict = NoVerdict
  /\ \E call \in {ValidatorCall(source.text, regexps)} :
       /\ verdict' = call.verdict
       /\ regexps' = call.regexps
  /\ UNCHANGED <<lessonVars, rateVars, req, fresh, source, seen, promptVars, apart>>

ValidatorInit ==
  /\ LessonInit /\ genDef = 1
  /\ RateIdle /\ ApiIdle /\ PromptIdle /\ CompileIdle /\ PageIdle /\ NetIdle
  /\ source \in Sources
  /\ verdict = NoVerdict
  /\ regexps = FreshRegExps
  /\ seen = [t \in RepeatTexts |-> NoVerdict]

ValidatorNext == ValidateSource

ValidatorSpec == ValidatorInit /\ [][ValidatorNext]_vars

IsBlank(code) == Len(Trim(code)) = 0

(***************************************************************************)
(* C20: every violation is collected                                       *)
(***************************************************************************)
\* C20, as stated: for any source text, empty and whitespace-only texts
\* included, the returned list has an entry for each rule the text breaks.
C20_CollectsEveryViolation ==
  verdict # NoVerdict =>
    \A i \in 1..Len(source.breaks) :
      \E j \in 1..Len(verdict.errors) : verdict.errors[j] = source.breaks[i]

\* C20, amended: for a text that is not empty or whitespace-only the returned
\* list is exactly the messages of the rules the text breaks, one for each,
\* in the order of the rules, and isValid says whether the list is empty; for
\* an empty or whitespace-only text the list is the single entry "Code is
\* empty" and no other rule is evaluated.
C20_CollectsEveryViolationOfNonBlankText ==
  verdict # NoVerdict =>
    IF IsBlank(source.text)
    THEN verdict = [isValid |-> FALSE, errors |-> <<"Code is empty">>]
    ELSE /\ verdict.errors = source.breaks
         /\ verdict.isValid = (source.breaks = <<>>)

\* a text that breaks rules 2, 4, 6 (twice), 7, 8 and 9 has been validated,
\* and the last rule it breaks is in the list
C20_Witness ==
  /\ ~IsBlank(source.text)
  /\ Len(source.breaks) = 7
  /\ Len(verdict.errors) = 7
  /\ verdict.errors[7] = "Missing \"use client\" directive at the top"

(***************************************************************************)
(* C21: imports                                                            *)
(***************************************************************************)
\* C21, as stated: a source that imports from a module other than "react"
\* gets an unsupported-import violation and never isValid = true.
C21_OnlyReactImports ==
  verdict # NoVerdict =>
    \A i \in 1..Len(source.imports) :
      source.imports[i] # "react" =>
        /\ ~verdict.isValid
        /\ \E j \in 1..Len(verdict.errors) :
             verdict.errors[j] = "Contains unsupported import: \"" \o source.imports[i]
                                   \o "\" (only React imports allowed)"

(***************************************************************************)
(* C22: the entry point                                                    *)
(***************************************************************************)
\* C22, as stated: isValid = true implies that the source has a
\* default-exported function declaration with an identifier that begins
\* with an uppercase letter.
C22_ValidHasUppercaseEntryPoint ==
  verdict # NoVerdict /\ verdict.isValid =>
    /\ source.entry # NULL
    /\ source.entry # ""
    /\ CharAt(source.entry, 1) \in UpperChars

(***************************************************************************)
(* Repeated validation: one process validates sources one after the other, *)
(* the same source any number of times. validateTypeScriptCode has no      *)
(* await: a call runs to its end before the next one starts, whichever     *)
(* requests the calls belong to.                                           *)
(***************************************************************************)
ValidateAgain(src) ==
  /\ source' = src
  /\ \E call \in {ValidatorCall(src.text, regexps)} :
       /\ verdict' = call.verdict
       /\ regexps' = call.regexps
       /\ seen' = IF seen[src.text] = NoVerdict
                  THEN [seen EXCEPT ![src.text] = call.verdict]
                  ELSE seen
  /\ UNCHANGED <<lessonVars, rateVars, req, fresh, promptVars, apart>>

RepeatInit == Init /\ genDef = 1

RepeatNext == \E src \in RepeatSources : ValidateAgain(src)

RepeatSpec == RepeatInit /\ [][RepeatNext]_vars

(***************************************************************************)
(* C23: validation is repeatable                                           *)
(***************************************************************************)
\* C23: whatever was validated before, a validation of a source text returns
\* the verdict that the first validation of that text returned: the same
\* isValid and the same violations in the same order.
C23_SameTextSameVerdict ==
  verdict # NoVerdict => verdict = seen[source.text]

\* a text with eval( and __proto__ is validated for the second time, after
\* other texts, and the verdict has both violations again
C23_Witness ==
  /\ source.text = SourceText({"eval", "proto"})
  /\ \A t \in RepeatTexts : seen[t] # NoVerdict
  /\ regexps # FreshRegExps
  /\ verdict.errors = <<"Contains dangerous eval() function", "Contains __proto__ manipulation">>

(***************************************************************************)
(* The admission filter on its own: validateLessonPrompt is called on an   *)
(* outline and returns.                                                    *)
(***************************************************************************)
CheckPrompt ==
  /\ admission = NoAdmission
  /\ admission' = validateLessonPrompt(entered.text)
  /\ UNCHANGED <<lessonVars, rateVars, req, fresh, validatorVars, entered, apart>>

PromptInit ==
  /\ LessonInit /\ genDef = 1
  /\ RateIdle /\ ApiIdle /\ ValidatorIdle /\ CompileIdle /\ PageIdle /\ NetIdle
  /\ entered \in PromptInputs
  /\ admission = NoAdmission

PromptNext == CheckPrompt

PromptSpec == PromptInit /\ [][PromptNext]_vars

\* prompt.trim().length, 0 for a prompt that is no string
TrimmedLength(prompt) == IF prompt = NULL THEN 0 ELSE Len(Trim(prompt))

(***************************************************************************)
(* C24: the limits on the length                                           *)
(***************************************************************************)
\* C24: a prompt whose trimmed length is below 10 or above 1000 is answered
\* isValid = false, whatever else it contains.
C24_LengthOutOfRangeRejected ==
  admission # NoAdmission =>
    (TrimmedLength(entered.text) < 10 \/ TrimmedLength(entered.text) > 1000
       => ~admission.isValid)

\* a text of 1001 characters between white space has been rejected
C24_Witness ==
  /\ entered.text # NULL
  /\ Len(entered.text) > 1001
  /\ TrimmedLength(entered.text) = 1001
  /\ admission = [isValid |-> FALSE, error |-> "Prompt is too long (maximum 1000 characters)"]

(***************************************************************************)
(* C25: outlines in other scripts                                          *)
(***************************************************************************)
\* C25, as stated: an outline in one of the nine scripts that has a valid
\* length, matches no keyword and triggers no injection rule and no rule on
\* offensive terms is accepted.
C25_ScriptOutlinesAccepted ==
  admission # NoAdmission /\ entered.script \in Scripts =>
    (/\ TrimmedLength(entered.text) \in 10..1000
     /\ ~AnyWord(ToLower(Trim(entered.text)), educationalKeywords)
     /\ ~IsSql(ToLower(Trim(entered.text)))
     /\ ~IsInjection(ToLower(Trim(entered.text)))
     /\ ~AnyWord(ToLower(Trim(entered.text)), inappropriateWords)
     => admission.isValid)

(***************************************************************************)
(* The compilation endpoint on its own: one request to POST /api/compile   *)
(* is answered.                                                            *)
(***************************************************************************)
\* POST from its first line to its return: the quota, the body, the guards,
\* the rewriting, the translation and the check of the output
Compile(headers, sweep) ==
  /\ reply = NoReply
  /\ RateLimitRun(headers, "compile", sweep, 0)
  /\ reply' = IF ~lastCall'.result.success
              THEN Refused(429, "Rate limit exceeded")
              ELSE CompileResponse(compileDef, posted)
  /\ UNCHANGED <<lessonVars, req, fresh, validatorVars, promptVars, compileDef,
                 posted, pageVars, netVars>>

\* the quota of the caller when the request arrives: untouched or used up
CompileInit ==
  /\ LessonInit /\ genDef = 1
  /\ ApiIdle /\ ValidatorIdle /\ PromptIdle /\ PageIdle /\ NetIdle
  /\ clock = 0
  /\ lastCall = NoCall
  /\ compileDef \in {1, 2}
  /\ posted \in CompileBodies
  /\ reply = NoReply
  /\ \E used \in {0, COMPILE_LIMIT} :
       LET k0 == KeyTable[The(ApiCallers)]
       IN  /\ store = [k \in Keys |->
                         IF k = k0 /\ used > 0
                         THEN [present |-> TRUE, count |-> used,
                               resetTime |-> RATE_INTERVAL]
                         ELSE NoWindow]
           /\ plainStore = store
           /\ served = [k \in Keys |->
                          IF k = k0 /\ used > 0
                          THEN [started |-> TRUE, first |-> 0, n |-> used,
                                allowed |-> used, by |-> {"compile"},
                                windows |-> 1]
                          ELSE NotServed]

CompileNext == \E headers \in ApiCallers : \E sweep \in BOOLEAN : Compile(headers, sweep)

CompileSpec == CompileInit /\ [][CompileNext]_vars

(***************************************************************************)
(* C26: the guards on the size of the source                               *)
(***************************************************************************)
\* C26: a request whose code is longer than MAX_CODE_LENGTH characters is
\* answered 413, and one whose code, trimmed, is shorter than MIN_CODE_LENGTH
\* characters is answered 400; in both cases the code is neither rewritten
\* nor translated and the response carries no compiledCode.
C26_SizeGuardsBeforeTranslation ==
  reply # NoReply /\ reply.status # 429 /\ posted.code # NULL =>
    /\ posted.length > MAX_CODE_LENGTH =>
         /\ reply.status = 413
         /\ ~reply.transpiled
         /\ reply.compiledCode = NULL
    /\ posted.length <= MAX_CODE_LENGTH /\ TrimmedCodeLength(posted) < MIN_CODE_LENGTH =>
         /\ reply.status = 400
         /\ ~reply.transpiled
         /\ reply.compiledCode = NULL

(***************************************************************************)
(* C27: the check of the compiled output                                   *)
(***************************************************************************)
\* C27: a response that carries compiledCode carries a text in which none of
\* the six dangerous patterns of the validator (eval, Function, innerHTML =,
\* dangerouslySetInnerHTML, __proto__, document.write) matches.
C27_OutputHasNoDangerousPrimitive ==
  reply.compiledCode # NULL =>
    \A k \in 1..Len(dangerousPatterns) :
      PatternHits(reply.compiledCode, dangerousPatterns[k].word,
                  dangerousPatterns[k].tail) = {}

(***************************************************************************)
(* C28: imports from other modules                                         *)
(***************************************************************************)
\* the modules of the UI framework
FrameworkModules == {"react", "react-dom"}

\* C28: a request whose code imports from a module that is not one of the
\* framework's is answered with an error and without compiledCode.
C28_ForeignImportRejected ==
  /\ reply # NoReply
  /\ \E k \in 1..Len(posted.imports) : posted.imports[k] \notin FrameworkModules
  => /\ reply.status # 200
     /\ reply.error # NULL
     /\ reply.compiledCode = NULL

(***************************************************************************)
(* C29: what the page's loader finds in the rewritten source               *)
(***************************************************************************)
\* position i of text t is outside a line comment
InCode(t, i) ==
  The({~\E j \in from..(i - 1) : MatchAt(t, j, "//") :
         from \in {MaxOf({0} \cup {j \in 1..(i - 1) : CharAt(t, j) = "\n"}) + 1}})

\* the keyword word stands in the code of t
HasKeyword(t, word) ==
  \E i \in 1..Len(t) :
    /\ MatchAt(t, i, word)
    /\ (i = 1 \/ ~IsWord(CharAt(t, i - 1)))
    /\ (i + Len(word) > Len(t) \/ ~IsWord(CharAt(t, i + Len(word))))
    /\ InCode(t, i)

\* t declares a function called name: the binding that
\* "root.render(React.createElement(LessonComponent))" of createHtml refers to
DeclaresFunction(t, name) ==
  \E i \in 1..Len(t) :
    /\ MatchAt(t, i, "function")
    /\ (i = 1 \/ ~IsWord(CharAt(t, i - 1)))
    /\ InCode(t, i)
    /\ SkipWs(t, i + 8) > i + 8
    /\ MatchAt(t, SkipWs(t, i + 8), name)
    /\ ~IsWord(CharAt(t \o " ", SkipWs(t, i + 8) + Len(name)))

\* C29: when the code of the request is accepted by validateTypeScriptCode,
\* the rewritten source has no import, no export, and declares the function
\* LessonComponent.
C29_AcceptedSourceBindsLessonComponent ==
  reply.transpiled /\ validateTypeScriptCode(CodeOf(posted)).isValid =>
    /\ ~HasKeyword(reply.transformedCode, "import")
    /\ ~HasKeyword(reply.transformedCode, "export")
    /\ DeclaresFunction(reply.transformedCode, "LessonComponent")

(***************************************************************************)
(* app/lessons/[id]/page.tsx: the lesson page and the frame that runs the  *)
(* compiled component. The browser is outside the repository; what a       *)
(* sandboxed frame may do follows its sandbox attribute as the HTML        *)
(* standard defines the tokens: scripts run with allow-scripts, the frame  *)
(* has the origin of its embedder only with allow-same-origin (else an     *)
(* opaque origin that reads and writes no storage of the embedder), and a  *)
(* script of the frame may navigate the top-level page with                *)
(* allow-top-navigation. postMessage to the parent needs no token.         *)
(***************************************************************************)
\* sandbox="allow-scripts allow-top-navigation"
SandboxFlags == {"allow-scripts", "allow-top-navigation"}

\* the message events of one visit are followed up to MaxMessages in the queue
MaxMessages == 3

\* a page of another site
ElsewhereUrl == "https://elsewhere.example/"

\* event.data: a string, or an object with a field type
MessageData ==
  { [kind |-> "string", value |-> "navigateToHome"],
    [kind |-> "string", value |-> "navigateToHome "],
    [kind |-> "string", value |-> "reload"],
    [kind |-> "object", value |-> "navigateToHome"] }

\* the windows that hold a reference to the page's window
Senders == {"frame", "other"}

\* event.data === "navigateToHome"
IsNavigateToHome(data) == data.kind = "string" /\ data.value = "navigateToHome"

\* what a script in the frame may try: post a message to its parent, set
\* the location of the top-level page, write the storage of the page
FrameOps ==
  {[kind |-> "post", data |-> d, url |-> NULL] : d \in MessageData}
  \cup {[kind |-> "top", data |-> NULL, url |-> u] : u \in {HomeUrl, ElsewhereUrl}}
  \cup {[kind |-> "storage", data |-> NULL, url |-> NULL]}

\* the operation is allowed by the sandbox of the frame
Permitted(op, flags) ==
  /\ "allow-scripts" \in flags
  /\ op.kind = "top" => "allow-top-navigation" \in flags
  /\ op.kind = "storage" => "allow-same-origin" \in flags

\* a script of the frame performs op; an operation the sandbox does not
\* allow throws in the frame and changes nothing outside it
FrameScript(op) ==
  /\ topUrl = LessonUrl
  /\ op.kind = "post" => Len(mailbox) < MaxMessages
  /\ mailbox' = IF op.kind = "post" /\ Permitted(op, SandboxFlags)
                THEN Append(mailbox, [data |-> op.data, sender |-> "frame"])
                ELSE mailbox
  /\ topUrl' = IF op.kind = "top" /\ Permitted(op, SandboxFlags) THEN op.url ELSE topUrl
  /\ hostStore' = IF op.kind = "storage" /\ Permitted(op, SandboxFlags)
                  THEN "written by the frame" ELSE hostStore
  /\ UNCHANGED <<lessonVars, rateVars, req, fresh, validatorVars, promptVars, compileVars,
                 netVars>>

\* another window posts a message to the page's window
OtherWindowPosts(data) ==
  /\ topUrl = LessonUrl
  /\ Len(mailbox) < MaxMessages
  /\ mailbox' = Append(mailbox, [data |-> data, sender |-> "other"])
  /\ UNCHANGED <<lessonVars, rateVars, req, fresh, validatorVars, promptVars,
                 compileVars, topUrl, hostStore, netVars>>

\* handleMessage of IframeLessonWrapper on the next message event; the
\* listener is removed when the page is left
HandleMessage ==
  /\ topUrl = LessonUrl
  /\ mailbox # <<>>
  /\ mailbox' = Tail(mailbox)
  /\ topUrl' = IF IsNavigateToHome(Head(mailbox).data) THEN HomeUrl ELSE topUrl
  /\ UNCHANGED <<lessonVars, rateVars, req, fresh, validatorVars, promptVars,
                 compileVars, hostStore, netVars>>

PageInit == Init /\ genDef = 1

PageNext ==
  \/ \E op \in FrameOps : FrameScript(op)
  \/ \E data \in MessageData : OtherWindowPosts(data)
  \/ HandleMessage

PageSpec == PageInit /\ [][PageNext]_vars

(***************************************************************************)
(* C30: what the frame can do to the page                                  *)
(***************************************************************************)
\* C30: no step changes the storage of the page, and a step changes the
\* location of the page only when it is the handling of a message whose data
\* is the string "navigateToHome", which takes the page to "/".
C30_HostChangesOnlyByNavigationIntent ==
  [][/\ hostStore' = hostStore
     /\ topUrl' # topUrl =>
          /\ mailbox # <<>>
          /\ IsNavigateToHome(Head(mailbox).data)
          /\ mailbox' = Tail(mailbox)
          /\ topUrl' = HomeUrl]_vars

(***************************************************************************)
(* The fetch utilities on their own: one call of fetchWithRetry or of      *)
(* fetchWithRetryAndTimeout, the fetches it issues and the timers it waits *)
(* for.                                                                    *)
(***************************************************************************)
\* one of the two functions is called and runs to its first await, or to its
\* end
CallFetch(fn, maxRetries) ==
  /\ net = NoFetch
  /\ net' = LoopTop([NoFetch EXCEPT !.fn = fn, !.maxRetries = maxRetries])
  /\ UNCHANGED <<lessonVars, rateVars, req, fresh, validatorVars, promptVars,
                 compileVars, pageVars>>

\* the fetch of fetchWithRetry settles; a fetch without a signal is not aborted
FetchSettles(outcome) ==
  /\ net.pc = "fetch"
  /\ net' = AfterFetch(Settle(net, outcome), outcome)
  /\ UNCHANGED <<lessonVars, rateVars, req, fresh, validatorVars, promptVars,
                 compileVars, pageVars>>

\* the timer of the delay runs out: "continue", or the end of the catch block
DelayElapses ==
  /\ net.pc = "delay"
  /\ net' = LoopTop([net EXCEPT !.i = net.i + 1])
  /\ UNCHANGED <<lessonVars, rateVars, req, fresh, validatorVars, promptVars,
                 compileVars, pageVars>>

\* the fetch of fetchWithTimeout settles, by itself or by controller.abort()
TimedFetchSettles(outcome) ==
  /\ net.pc = "timed"
  /\ net' = AfterTimedFetch(Settle(net, outcome), outcome)
  /\ UNCHANGED <<lessonVars, rateVars, req, fresh, validatorVars, promptVars,
                 compileVars, pageVars>>

FetchInit == Init /\ genDef = 1

FetchNext ==
  \/ \E fn \in {"fetchWithRetry", "fetchWithRetryAndTimeout"} :
       \E maxRetries \in 0..MaxMaxRetries : CallFetch(fn, maxRetries)
  \/ \E outcome \in {Response(status) : status \in Statuses} \cup {NetworkError} :
       FetchSettles(outcome)
  \/ DelayElapses
  \/ \E outcome \in {Response(status) : status \in Statuses} \cup {NetworkError, AbortError} :
       TimedFetchSettles(outcome)

FetchSpec == FetchInit /\ [][FetchNext]_vars

(***************************************************************************)
(* C31: the retry policy of fetchWithRetry                                 *)
(***************************************************************************)
\* a 5xx response or a network error
IsFailure(outcome) == outcome.kind = "error" \/ outcome.status >= 500

\* the fetches of the call that have settled with a failure before the last
\* round of the loop
RetriedFetches ==
  {k \in 1..Len(net.fetches) : k < net.maxRetries /\ IsFailure(net.fetches[k].outcome)}

C37_OneRequestUnderBothPolicies ==
  net.fn = "fetchWithRetryAndTimeout" =>
    /\ \A k \in 1..Len(net.fetches) : net.fetches[k].signal
    /\ Len(net.fetches) <= net.maxRetries
    /\ net.pc = "returned" => net.result = net.retried

(***************************************************************************)
(* The background task with a database that may refuse an update: the      *)
(* call of supabase...update(...).eq("id", lessonId) resolves with an      *)
(* error and the row is left as it was.                                    *)
(***************************************************************************)
\* generateLessonInBackground after the race, when its update is refused:
\* the error of the update that writes "generated" is logged (lines 203-204),
\* the result of an update that writes "failed" is not read; the task ends
BgUpdateRefused(id) ==
  /\ bg[id].pc = "settled"
  /\ bg' = [bg EXCEPT ![id].pc = "done"]
  /\ UNCHANGED <<others, genDef, lessons, age, timer, gl, writers>>

RefusalInit == Init

RefusalNext ==
  \/ LiveNext
  \/ \E id \in 1..LiveLessons : BgUpdateRefused(id)

RefusalSpec == RefusalInit /\ [][RefusalNext]_vars

(***************************************************************************)
(* C32: a refused update                                                   *)
(***************************************************************************)
\* C32: when the background task of a row has ended, the status of the row
\* is "generated" or "failed", also when the database refused the update of
\* the task.
C32_TaskEndsWithTerminalRecord ==
  \A id \in Ids : bg[id].pc = "done" => lessons[id].status \in Terminal

(***************************************************************************)
(* The table, the timers and the clean-up job with a model that answers    *)
(* its first code call with a lesson that passes validation, or does not   *)
(* answer: the behaviours of Spec without repairs, retries and thrown      *)
(* values.                                                                 *)
(***************************************************************************)
TimerInit == Init /\ genDef = 1

TimerNext ==
  \/ \E o \in Outlines : POST(o)
  \/ \E id \in Ids : \E text \in TitleResponses : TitleReturns(id, text)
  \/ \E id \in Ids : \E raw \in {Fence \o "tsx\n" \o ValidLesson \o "\n" \o Fence, ShortLesson} :
       CodeReturns(id, raw)
  \/ \E id \in Ids : TimerFires(id)
  \/ \E id \in Ids : BgWrite(id)
  \/ cleanupStuckLessons
  \/ Tick

TimerSpec == TimerInit /\ [][TimerNext]_vars

(***************************************************************************)
(* C33: what cleanupStuckLessons changes                                   *)
(***************************************************************************)
\* C33: a call of cleanupStuckLessons gives every row that is "generating"
\* and was created more than 10 minutes ago the status "failed" and the
\* timeout message, keeping its other fields, and leaves every other row
\* ("generated", "failed", or "generating" for 10 minutes or less) as it is.
C33_CleanupChangesOnlyStuckRows ==
  [][cleanupStuckLessons =>
       \A id \in Ids :
         IF lessons[id].status = "generating" /\ age[id] > STUCK_THRESHOLD
         THEN lessons'[id] = [lessons[id] EXCEPT !.status = "failed",
                                                 !.error_message = StuckMessage]
         ELSE lessons'[id] = lessons[id]]_vars

\* cleanupStuckLessons has moved a row to "failed" with the timeout message
\* while another row, created later and still "generating", was left alone
C33_Witness ==
  \E id, j \in Ids :
    /\ writers[id] = {CleanupJob}
    /\ lessons[id].status = "failed"
    /\ lessons[id].error_message = StuckMessage
    /\ lessons[j].status = "generating"
    /\ age[j] <= STUCK_THRESHOLD
    /\ writers[j] = {}

(***************************************************************************)
(* C36: the timer that fires after the race                                *)
(***************************************************************************)
\* C36: when the timer of a task fires after generateLesson has settled the
\* race, the step changes neither the table nor the task nor the run; the
\* task issues its update once; and a row written only by a task whose race
\* generateLesson settled holds what that update wrote, also after the timer
\* has fired.
C36_LateTimerChangesNothing ==
  /\ [][\A id \in Ids :
          /\ timer[id].state = "armed" /\ timer'[id].state = "fired"
               /\ bg[id].pc # "racing"
             => /\ lessons' = lessons
                /\ writers' = writers
                /\ bg' = bg
                /\ gl' = gl
          /\ bg[id].pc = "done" => bg'[id] = bg[id]]_vars
  /\ [](\A id \in Ids :
          bg[id].pc = "done" /\ ~bg[id].timedOut /\ writers[id] = {Task(id)} =>
            /\ bg[id].outcome = [kind |-> "fulfilled", result |-> gl[id].result]
            /\ lessons[id] = ApplyUpdate(NewLesson(lessons[id].outline),
                                         TerminalUpdate(bg[id].outcome)))

\* the task of a row has written the lesson generateLesson returned, and the
\* timer of the task has fired afterwards: the row is "generated" and holds
\* the lesson
C36_Witness ==
  \E id \in Ids :
    /\ timer[id].state = "fired"
    /\ ~bg[id].timedOut
    /\ bg[id].pc = "done"
    /\ writers[id] = {Task(id)}
    /\ lessons[id].status = "generated"
    /\ lessons[id].generated_content = ValidLesson
    /\ lessons[id].error_message = NULL

(***************************************************************************)
(* generateLesson: the code of a successful result                         *)
(***************************************************************************)
\* the step takes the run of lesson id from a model call to a successful result
ReturnsSuccess(id) ==
  /\ gl[id].pc # "returned"
  /\ gl'[id].pc = "returned"
  /\ gl'[id].result.success

\* C34: when generateLesson returns success = true, the code returned is the
\* text on which the last validation of the accepting attempt was run: the
\* cleaned answer of the repair call when the attempt made a repair, the
\* cleaned draft of that attempt otherwise; it is never the draft of an
\* earlier attempt nor a text changed after its validation.
C34_ReturnsLastValidatedText ==
  /\ [](\A id \in Ids :
          gl[id].pc = "returned" /\ gl[id].result.success =>
            gl[id].result.code = gl[id].lastValidated)
  /\ [][\A id \in Ids : \A raw \in CodeResponses :
          /\ CodeReturns(id, raw) /\ ReturnsSuccess(id) =>
                gl'[id].result.code = CleanGeneratedTable[raw]
          /\ RepairReturns(id, raw) /\ ReturnsSuccess(id) =>
                gl'[id].result.code = CleanFixedTable[genDef][raw]]_vars

\* the second attempt of a run was accepted after a repair: the result
\* carries the repaired text, whose draft had failed validation
C34_Witness ==
  \E id \in Ids :
    /\ gl[id].pc = "returned"
    /\ gl[id].result.success
    /\ gl[id].retryCount = 1
    /\ gl[id].path = "accepted"
    /\ gl[id].result.code = ValidLesson
    /\ gl[id].lastValidated = ValidLesson
    /\ gl[id].lastFailure = "none"

(***************************************************************************)
(* rateLimit called again and again by clients that are being refused      *)
(***************************************************************************)
\* the calls of one window are followed up to MaxRefusedCount for the client
\* behind the proxy and up to MaxBystanderCount for the other one
MaxRefusedCount == 8

MaxBystanderCount == 1

CallBound(headers) ==
  IF headers.forwardedFor = NULL THEN MaxBystanderCount ELSE MaxRefusedCount

\* a call of rateLimit by one of the endpoints, in a window that may be full
ThrottledCall(headers, endpoint, sweep, slip) ==
  /\ Lookup(store, KeyTable[headers], clock, ConfigOf(endpoint)).count
       < CallBound(headers)
  /\ Lookup(plainStore, KeyTable[headers], clock, ConfigOf(endpoint)).count
       < CallBound(headers)
  /\ RateLimitRun(headers, endpoint, sweep, slip)
  /\ UNCHANGED <<lessonVars, req, fresh, standalone>>

ThrottleInit == Init /\ genDef = 1

ThrottleNext ==
  \/ \E headers \in Callers : \E endpoint \in Endpoints :
       \E sweep \in BOOLEAN : \E slip \in {0, 1} :
         ThrottledCall(headers, endpoint, sweep, slip)
  \/ MillisecondPasses

ThrottleSpec == ThrottleInit /\ [][ThrottleNext]_vars

\* the step is a call of rateLimit by headers that is refused
RefusedCall(headers) ==
  /\ \E endpoint \in Endpoints : \E sweep \in BOOLEAN : \E slip \in {0, 1} :
       ThrottledCall(headers, endpoint, sweep, slip)
  /\ ~lastCall'.result.success

\* C35 as stated: after a refused call the window of the key has its count
\* incremented and its reset time unchanged.
C35_RefusedCallCountsInPlace ==
  [][\A headers \in Callers :
       RefusedCall(headers) =>
         LET key == KeyTable[headers]
         IN  /\ store[key].present
             /\ store'[key] = [store[key] EXCEPT !.count = store[key].count + 1]]_vars

\* every call made after time t by the key is admitted, whichever endpoint makes it
AdmittedAfter(st, key, t) ==
  \A now \in (t + 1)..MaxClock : \A endpoint \in Endpoints :
    rateLimit(st, key, now, ConfigOf(endpoint)).result.success

\* C35, amended: a refused call is made in a window that is not over, and is
\* told the reset time of that window; after it the window has its count
\* incremented and its reset time unchanged, or it has been deleted by the
\* cleanupOldEntries of the call itself, which read a clock later than the
\* reset time; either way a call made after the reset time is admitted.
\* A reset time is assigned only by a call of the key that is admitted,
\* having found no window or a window that was over.
C35_RefusalNeverPostponesAdmission ==
  [][\A headers \in Callers :
       LET key == KeyTable[headers]
       IN  /\ RefusedCall(headers) =>
                /\ store[key].present
                /\ clock <= store[key].resetTime
                /\ lastCall'.result.reset = store[key].resetTime
                /\ \/ store'[key] =
                        [store[key] EXCEPT !.count = store[key].count + 1]
                   \/ /\ store'[key] = NoWindow
                      /\ lastCall'.swept
                      /\ lastCall'.sweptAt > store[key].resetTime
                /\ AdmittedAfter(store', key, store[key].resetTime)
           /\ store'[key].present
                /\ (~store[key].present
                      \/ store'[key].resetTime # store[key].resetTime) =>
                /\ lastCall'.key = key
                /\ lastCall'.result.success
                /\ store'[key].count = 1
                /\ store'[key].resetTime = clock + RATE_INTERVAL
                /\ ~store[key].present \/ clock > store[key].resetTime]_vars

\* a key has been refused three times in one window, the last time by a call
\* that ran cleanupOldEntries, and its window still ends when it did
C35_Witness ==
  \E key \in Keys :
    /\ lastCall.key = key
    /\ ~lastCall.result.success
    /\ lastCall.swept
    /\ served[key].n = MaxRefusedCount
    /\ served[key].allowed = GENERATE_LIMIT
    /\ store[key].present
    /\ store[key].count = MaxRefusedCount
    /\ store[key].resetTime = served[key].first + RATE_INTERVAL
    /\ lastCall.result.reset = store[key].resetTime
    /\ lastCall.now > served[key].first
====
